---- MODULE Spec2Model ----
(***************************************************************************)
(* The authentication routes of the happy server (authRoutes): the         *)
(* terminal-level and account-level pairing state machines, the            *)
(* signature-based direct authentication, and the directory login with its *)
(* identity deriver and credential vault; the LDAP module the directory    *)
(* login calls; and the SHA-512 and HMAC of the web client                 *)
(* (hmac_sha512.web.ts).  The store (Prisma) is a set of rows per table;   *)
(* every handler is one action per store round trip, so that handlers      *)
(* interleave exactly where the code awaits the store.                     *)
(***************************************************************************)
EXTENDS Integers, Sequences, FiniteSets, Bags, TLC

VARIABLES
    terminalAuthRequest,  \* db.terminalAuthRequest: set of rows
    accountAuthRequest,   \* db.accountAuthRequest: set of rows
    account,              \* db.account: set of rows
    inflight,             \* the bag of approval handlers suspended between findUnique and update
    reply,                \* the last reply a pairing endpoint sent, with its request
    authReply,            \* the last reply POST /v1/auth sent, with its request
    masterSecret,         \* process.env.HANDY_MASTER_SECRET
    userKVStore,          \* db.userKVStore: set of rows
    adInflight,           \* the bag of directory logins suspended at an await of the store
    adReply,              \* the last reply a directory-login endpoint sent, with its request
    issued,               \* the accounts and secrets the directory logins have returned so
                          \* far, per user name after its last backslash
    ldapCall,             \* the last call of the LDAP module's authenticate, with its outcome
    vault,                \* the last sealing and unsealing of a NAS password
    derivation,           \* the hash inputs derived for two logins
    sealCalls,            \* the calls of encryptNasPassword made so far, each with its blob
    hashCall,             \* the last call of the client's hmac_sha512.web.ts, with its result
    received              \* what the polls of the watched requesters have returned so far

vars == <<terminalAuthRequest, accountAuthRequest, account, inflight, reply, authReply,
          masterSecret, userKVStore, adInflight, adReply, issued, ldapCall, vault,
          derivation, sealCalls, hashCall, received>>

pairingVars == <<terminalAuthRequest, accountAuthRequest, inflight, reply, received>>

directoryVars == <<masterSecret, userKVStore, adInflight, adReply, issued>>

pureVars == <<ldapCall, vault, derivation, sealCalls, hashCall>>

-----------------------------------------------------------------------------
(* Bounds of the model *)

\* distinct well-formed public keys the clients use
MaxKeys == 1

\* approval handlers that may be in flight at the same time
Racers == 2

\* distinct non-empty response payloads (the empty payload is always there)
MaxResp == 1

\* authenticated accounts that may approve
MaxUsers == 2

\* signing key pairs that use POST /v1/auth
MaxSigners == 2

\* distinct challenges
MaxChallenges == 2

\* logins per account that bump updatedAt (caps the clock)
MaxLogins == 2

\* longest user name
MaxUsernameLen == 3

\* longest password, in UTF-16 code units
MaxPasswordLen == 2

\* distinct outcomes of the random generator
MaxNonces == 2

\* servers of LDAP_SERVERS
MaxServers == 2

\* directory logins that may be in flight at the same time
AdRacers == 2

\* calls of encryptNasPassword looked at one after the other
MaxSeals == 2

\* how far below and above the block size the lengths of the HMAC keys go
MaxAround == 1

\* the longest input whose padding is looked at: two blocks and a byte
MaxDataLen == 257

-----------------------------------------------------------------------------
(* Program constants *)

\* tweetnacl.box.publicKeyLength
publicKeyLength == 32

\* tweetnacl.sign.publicKeyLength
signPublicKeyLength == 32

\* tweetnacl.sign.signatureLength
signatureLength == 64

\* the nonce length of encryptNasPassword: randomBytes(12)
ivLength == 12

\* the length of the AES-256-GCM tag: data.subarray(12, 28)
authTagLength == 16

\* the first lead surrogate, U+D800
highSurrogate == 55296

\* the first trail surrogate, U+DC00
lowSurrogate == 56320

\* U+FFFD
replacementCharacter == 65533

-----------------------------------------------------------------------------
(* Values *)

\* a nullable column or an optional field: null, or one value
None == <<>>

Some(x) == <<x>>

\* JavaScript truthiness of a nullable string: not null and not ""
Truthy(s) == s # None /\ Len(s[1]) > 0

\* a byte string of `length` bytes, all equal to `byte` (run-length encoded: the
\* keys of the model are such strings)
Bytes(length, byte) == [length |-> length, byte |-> byte]

HexDigits == <<"0", "1", "2", "3", "4", "5", "6", "7", "8", "9", "a", "b", "c", "d", "e", "f">>

\* privacyKit.encodeHex: two lower-case hex digits per byte, so for a run of equal
\* bytes a run of twice as many characters that repeats the two digits of the byte
encodeHex(bytes) ==
    [length |-> 2 * bytes.length,
     digits |-> <<HexDigits[(bytes.byte \div 16) + 1], HexDigits[(bytes.byte % 16) + 1]>>]

\* the public keys clients send, decoded: well-formed ones, one byte short, one byte long
PublicKeys ==
    {Bytes(publicKeyLength, b) : b \in 1..MaxKeys}
        \cup {Bytes(publicKeyLength - 1, 1), Bytes(publicKeyLength + 1, 1)}

\* response payloads (opaque strings); z.string() accepts the empty string
Responses == {<<>>} \cup {<<c>> : c \in 1..MaxResp}

\* identifiers of rows: unique per table
RowId(table, n) == [table |-> table, n |-> n]

\* request.userId of an authenticated caller
UserIds == {RowId("account", n) : n \in 1..MaxUsers}

\* supportsV2: z.boolean().nullish()
SupportsV2Inputs == {None, Some(FALSE), Some(TRUE)}

\* the signing public keys clients send to POST /v1/auth, decoded: one per key pair,
\* and one a byte short
SignPublicKeys ==
    {Bytes(signPublicKeyLength, b) : b \in 1..MaxSigners}
        \cup {Bytes(signPublicKeyLength - 1, 1)}

Challenges == {<<c>> : c \in 1..MaxChallenges}

\* a detached signature, by what it is a signature of: made with the private key of
\* public key `by` over the message `over`; length is its size in bytes
Signature(by, over, length) == [by |-> by, over |-> over, length |-> length]

\* the signatures clients send: every key pair's signature of every challenge, and a
\* signature that is a byte short
Signatures ==
    {Signature(Bytes(signPublicKeyLength, b), c, signatureLength) :
        b \in 1..MaxSigners, c \in Challenges}
        \cup {Signature(Bytes(signPublicKeyLength, 1), <<1>>, signatureLength - 1)}

-----------------------------------------------------------------------------
(* The store: Prisma operations on a table with a unique publicKey column *)

\* findUnique({ where: { publicKey } }): the row, or null
findUnique(table, publicKeyHex) ==
    IF \E row \in table : row.publicKey = publicKeyHex
        THEN Some(CHOOSE row \in table : row.publicKey = publicKeyHex)
        ELSE None

\* an upsert whose update part writes the fields of create (update: create instead
\* of update: {})
upsertOverwriting(name, table, publicKeyHex, create) ==
    IF \E row \in table : row.publicKey = publicKeyHex
        THEN {IF row.publicKey = publicKeyHex THEN create @@ row ELSE row : row \in table}
        ELSE table \cup
                {[id |-> RowId(name, Cardinality(table) + 1),
                  response |-> None,
                  responseAccountId |-> None] @@ create}

\* upsert({ where: { publicKey }, update: {}, create }): one atomic statement of the
\* store; an existing row is left as it is, otherwise the row is inserted under a
\* fresh id with its nullable columns null
upsert(name, table, publicKeyHex, create) ==
    IF \E row \in table : row.publicKey = publicKeyHex
        THEN table
        ELSE table \cup
                {[id |-> RowId(name, Cardinality(table) + 1),
                  response |-> None,
                  responseAccountId |-> None] @@ create}

\* an approval that writes the response and leaves responseAccountId out
approveDataResponseOnly(response, userId) ==
    [response |-> Some(response), responseAccountId |-> None]

\* data: { response: request.body.response, responseAccountId: request.userId }
approveData(response, userId) ==
    [response |-> Some(response), responseAccountId |-> Some(userId)]

\* update({ where: { id }, data }): writes the columns of data in one statement
update(table, id, data) ==
    {IF row.id = id
        THEN [row EXCEPT !.response = data.response,
                         !.responseAccountId = data.responseAccountId]
        ELSE row : row \in table}

\* a token that carries the account alone
createTokenUnscoped(accountId, session) == [accountId |-> accountId, session |-> None]

\* auth.createToken(accountId, { session }): the token is opaque to the routes; it is
\* modelled by what it was minted for
createToken(accountId, session) == [accountId |-> accountId, session |-> session]

-----------------------------------------------------------------------------
(* Requests and replies of the pairing endpoints *)

NoBody ==
    [state |-> "", status |-> "", token |-> None, response |-> None,
     supportsV2 |-> FALSE, error |-> "", success |-> FALSE]

\* a reply, with the endpoint and the public key of its request (and, for POST
\* /v1/auth/request, the request's supportsV2); dbCalls: the store calls the handler
\* made before it replied
Reply(endpoint, publicKey, code, body, dbCalls) ==
    [endpoint |-> endpoint, publicKey |-> publicKey, supportsV2 |-> None, code |-> code,
     body |-> body, dbCalls |-> dbCalls]

NoReply == Reply("", Bytes(0, 0), 0, NoBody, 0)

\* an approval handler suspended at the await of its update: its request and the
\* row its findUnique returned (a row whose response was null or "")
Handler(endpoint, publicKey, response, userId, authRequest) ==
    [endpoint |-> endpoint, publicKey |-> publicKey, response |-> response,
     userId |-> userId, authRequest |-> authRequest]

\* a key check that only rejects keys that are too long
isValidAtMost(publicKey) == publicKey.length <= publicKeyLength

\* a key check that only rejects keys that are too short
isValidAtLeast(publicKey) == publicKey.length >= publicKeyLength

\* tweetnacl.box.publicKeyLength === publicKey.length
isValid(publicKey) == publicKey.length = publicKeyLength

\* a check of responseAccountId alone
isAnsweredAccountOnly(answer) == answer.responseAccountId # None

\* if (answer.response && answer.responseAccountId): a response that is neither null
\* nor "", and an account id (ids are never empty)
isAnswered(answer) == Truthy(answer.response) /\ answer.responseAccountId # None

\* the reply of a poll, from the row the upsert returned; session is the options
\* argument of createToken
pollBody(answer, session) ==
    IF isAnswered(answer)
        THEN [NoBody EXCEPT !.state = "authorized",
                            !.token = Some(createToken(answer.responseAccountId[1], session)),
                            !.response = answer.response]
        ELSE [NoBody EXCEPT !.state = "requested"]

\* the body of GET /v1/auth/request/status, from what findUnique returned
statusBody(authRequest) ==
    IF authRequest = None
        THEN [NoBody EXCEPT !.status = "not_found", !.supportsV2 = FALSE]
    ELSE IF Truthy(authRequest[1].response) /\ authRequest[1].responseAccountId # None
        THEN [NoBody EXCEPT !.status = "authorized", !.supportsV2 = FALSE]
    ELSE [NoBody EXCEPT !.status = "pending", !.supportsV2 = authRequest[1].supportsV2]

InvalidPublicKey == [NoBody EXCEPT !.error = "Invalid public key"]

NotFound == [NoBody EXCEPT !.error = "Request not found"]

Success == [NoBody EXCEPT !.success = TRUE]

-----------------------------------------------------------------------------
(* Signature-based direct authentication: values *)

\* a verification that checks the signer and not the message that was signed
verifyAnyMessage(challenge, signature, publicKey) ==
    IF signature.length # signatureLength \/ publicKey.length # signPublicKeyLength
        THEN "throw"
    ELSE IF signature.by = publicKey
        THEN "true"
    ELSE "false"

\* tweetnacl.sign.detached.verify(challenge, signature, publicKey): "throw" for a
\* signature or a public key of the wrong size, else whether the signature was made
\* with the key pair of publicKey over exactly challenge
verify(challenge, signature, publicKey) ==
    IF signature.length # signatureLength \/ publicKey.length # signPublicKeyLength
        THEN "throw"
    ELSE IF signature.by = publicKey /\ signature.over = challenge
        THEN "true"
    ELSE "false"

\* an insert in the place of the upsert: a new row at every login
upsertAccountInsertOnly(table, publicKeyHex) ==
    table \cup {[id |-> RowId("account", Cardinality(table) + 1),
                 publicKey |-> publicKeyHex,
                 updatedAt |-> Cardinality(table)]}

\* db.account.upsert({ where: { publicKey }, update: { updatedAt: new Date() },
\* create: { publicKey } }); updatedAt counts the updates of the row
upsertAccount(table, publicKeyHex) ==
    IF \E row \in table : row.publicKey = publicKeyHex
        THEN {IF row.publicKey = publicKeyHex
                 THEN [row EXCEPT !.updatedAt = row.updatedAt + 1]
                 ELSE row : row \in table}
        ELSE table \cup
                {[id |-> RowId("account", Cardinality(table) + 1),
                  publicKey |-> publicKeyHex,
                  updatedAt |-> 0]}

\* a reply of POST /v1/auth, with its request
AuthReply(publicKey, challenge, signature, code, token, error) ==
    [publicKey |-> publicKey, challenge |-> challenge, signature |-> signature,
     code |-> code, token |-> token, error |-> error]

NoAuthReply == AuthReply(Bytes(0, 0), <<>>, Signature(Bytes(0, 0), <<>>, 0), 0, None, "")

-----------------------------------------------------------------------------
(* Init *)

-----------------------------------------------------------------------------
(* Text *)

\* A JavaScript string whose bytes matter (a password) is the sequence of its
\* UTF-16 code units; a string that is only concatenated and compared (a
\* user name, the master secret, a hash input) is the sequence of its
\* characters.

\* the code units passwords are made of: x, e-acute, and an unpaired or
\* paired surrogate
CodeUnits == {120, 233, highSurrogate, lowSurrogate}

Strings(alphabet, maxLen) ==
    UNION {[1..n -> alphabet] : n \in 0..maxLen}

\* the body schema of POST /v1/auth/ad: z.string().min(1)
Passwords == {p \in Strings(CodeUnits, MaxPasswordLen) : Len(p) >= 1}

isSurrogate(unit) == unit >= highSurrogate /\ unit < highSurrogate + 2048

isLeadSurrogate(unit) == unit >= highSurrogate /\ unit < lowSurrogate

isTrailSurrogate(unit) == unit >= lowSurrogate /\ unit < lowSurrogate + 1024

\* the bytes Node writes for a string in 'utf8': a surrogate pair is one
\* four-byte code point, an unpaired surrogate is written as U+FFFD
RECURSIVE utf8Write(_)
utf8Write(string) ==
    IF string = <<>> THEN <<>>
    ELSE LET unit == Head(string)
             paired == /\ isLeadSurrogate(unit)
                       /\ Len(string) >= 2
                       /\ isTrailSurrogate(string[2])
             codePoint == 65536 + (unit - highSurrogate) * 1024 + (string[2] - lowSurrogate)
         IN  IF unit < 128 THEN <<unit>> \o utf8Write(Tail(string))
             ELSE IF unit < 2048
                 THEN <<192 + (unit \div 64), 128 + (unit % 64)>> \o utf8Write(Tail(string))
             ELSE IF paired
                 THEN <<240 + (codePoint \div 262144), 128 + ((codePoint \div 4096) % 64),
                        128 + ((codePoint \div 64) % 64), 128 + (codePoint % 64)>>
                      \o utf8Write(Tail(Tail(string)))
             ELSE IF isSurrogate(unit)
                 THEN utf8Write(<<replacementCharacter>>) \o utf8Write(Tail(string))
             ELSE <<224 + (unit \div 4096), 128 + ((unit \div 64) % 64), 128 + (unit % 64)>>
                  \o utf8Write(Tail(string))

isContinuation(bytes, i) == Len(bytes) >= i /\ bytes[i] >= 128 /\ bytes[i] < 192

\* Buffer.toString('utf8'): the string of the code points the bytes encode;
\* a byte that starts no well-formed sequence decodes to U+FFFD
RECURSIVE utf8Slice(_)
utf8Slice(bytes) ==
    IF bytes = <<>> THEN <<>>
    ELSE LET b == Head(bytes)
             two == (b - 192) * 64 + (bytes[2] - 128)
             three == (b - 224) * 4096 + (bytes[2] - 128) * 64 + (bytes[3] - 128)
             four == (b - 240) * 262144 + (bytes[2] - 128) * 4096
                     + (bytes[3] - 128) * 64 + (bytes[4] - 128)
         IN  IF b < 128 THEN <<b>> \o utf8Slice(Tail(bytes))
             ELSE IF b >= 192 /\ b < 224 /\ isContinuation(bytes, 2) /\ two >= 128
                 THEN <<two>> \o utf8Slice(SubSeq(bytes, 3, Len(bytes)))
             ELSE IF /\ b >= 224 /\ b < 240
                     /\ isContinuation(bytes, 2) /\ isContinuation(bytes, 3)
                     /\ three >= 2048 /\ ~isSurrogate(three)
                 THEN <<three>> \o utf8Slice(SubSeq(bytes, 4, Len(bytes)))
             ELSE IF /\ b >= 240 /\ b < 248
                     /\ isContinuation(bytes, 2) /\ isContinuation(bytes, 3)
                     /\ isContinuation(bytes, 4)
                     /\ four >= 65536 /\ four < 1114112
                 THEN <<highSurrogate + ((four - 65536) \div 1024),
                        lowSurrogate + ((four - 65536) % 1024)>>
                      \o utf8Slice(SubSeq(bytes, 5, Len(bytes)))
             ELSE <<replacementCharacter>> \o utf8Slice(Tail(bytes))

\* the characters user names and master secrets are made of
Characters == {"a", ":", "\\"}

\* the body schema of POST /v1/auth/ad: z.string().min(1)
Usernames == {u \in Strings(Characters, MaxUsernameLen) : Len(u) >= 1}

\* the values of HANDY_MASTER_SECRET the server may be started with
MasterSecrets == {<<"k">>, <<"k", ":", "a">>}

-----------------------------------------------------------------------------
(* Hashing and sealing *)

\* createHash('sha256').update(input).digest(): the digest is kept as the
\* term of its input, so that two digests are equal exactly when their
\* inputs are
sha256(input) == [sha256 |-> input]

\* digest('hex') and digest().toString('base64url') of a hash
digest(hash, encoding) == [digest |-> hash, encoding |-> encoding]

\* the input of the account identifier's hash: `ad:${masterSecret}:${normalizedUsername}`
publicKeyHashInput(secret, normalizedUsername) ==
    <<"a", "d", ":">> \o secret \o <<":">> \o normalizedUsername

\* a login secret hashed from the input of the account identifier
secretHashInputUnderAccountPrefix(secret, normalizedUsername) ==
    <<"a", "d", ":">> \o secret \o <<":">> \o normalizedUsername

\* the input of the login secret's hash: `ad-secret:${masterSecret}:${normalizedUsername}`
secretHashInput(secret, normalizedUsername) ==
    <<"a", "d", "-", "s", "e", "c", "r", "e", "t", ":">> \o secret \o <<":">>
    \o normalizedUsername

\* the input of the vault key's hash: `nas-cred-key:${masterSecret}:${username}`
nasCredKeyInput(secret, username) ==
    <<"n", "a", "s", "-", "c", "r", "e", "d", "-", "k", "e", "y", ":">> \o secret \o <<":">>
    \o username

deriveNasCredKey(secret, username) == sha256(nasCredKeyInput(secret, username))

\* A buffer is a sequence of slices: the bytes from..to of a byte string,
\* possibly with a bit flipped.  A buffer made in one piece has one slice.
Slice(of, from, to) == [of |-> of, from |-> from, to |-> to, flipped |-> FALSE]

\* buffer.length
RECURSIVE byteLength(_)
byteLength(data) ==
    IF data = <<>> THEN 0
    ELSE Head(data).to - Head(data).from + 1 + byteLength(Tail(data))

\* randomBytes(size), the generator having drawn the given outcome
randomBytes(size, outcome) == <<Slice([random |-> outcome], 1, size)>>

\* cipher.update(password, 'utf8') followed by cipher.final(), AES-256-GCM:
\* counter mode, one byte of ciphertext per byte of plaintext
cipherUpdate(key, iv, plain) ==
    IF plain = <<>> THEN <<>>
    ELSE <<Slice([key |-> key, iv |-> iv, plain |-> plain], 1, Len(plain))>>

\* cipher.getAuthTag(): the tag over the nonce and the ciphertext under the key
getAuthTag(key, iv, encrypted) ==
    <<Slice([key |-> key, iv |-> iv, mac |-> encrypted], 1, authTagLength)>>

\* the plaintext bytes under the slices of a ciphertext
RECURSIVE plainOf(_)
plainOf(encrypted) ==
    IF encrypted = <<>> THEN <<>>
    ELSE SubSeq(Head(encrypted).of.plain, Head(encrypted).from, Head(encrypted).to)
         \o plainOf(Tail(encrypted))

\* the plaintext whatever the tag
decipherFinalUnverified(key, iv, tag, encrypted) ==
    [threw |-> FALSE, bytes |-> plainOf(encrypted)]

\* decipher.update(encrypted) followed by decipher.final(): the plaintext, or
\* an exception when the tag set with setAuthTag is not the tag of the
\* ciphertext under the key and nonce
decipherFinal(key, iv, tag, encrypted) ==
    IF tag = getAuthTag(key, iv, encrypted)
        THEN [threw |-> FALSE, bytes |-> plainOf(encrypted)]
    ELSE [threw |-> TRUE, bytes |-> <<>>]

\* Buffer.subarray(start, end), offsets counted from 0 and clamped to the buffer
RECURSIVE subarray(_, _, _)
subarray(data, start, end) ==
    IF data = <<>> \/ start >= end THEN <<>>
    ELSE LET slice == Head(data)
             length == slice.to - slice.from + 1
             upto == IF end < length THEN end ELSE length
         IN  IF start >= length
                 THEN subarray(Tail(data), start - length, end - length)
             ELSE <<[slice EXCEPT !.from = slice.from + start, !.to = slice.from + upto - 1]>>
                  \o subarray(Tail(data), 0, end - length)

\* the buffer with a bit of its byte at the position flipped
flip(data, position) ==
    LET before == subarray(data, 0, position - 1)
        byte == subarray(data, position - 1, position)
        after == subarray(data, position, byteLength(data))
    IN  before \o <<[byte[1] EXCEPT !.flipped = ~byte[1].flipped]>> \o after

\* a sealing whose nonce is made from the key
encryptNasPasswordNonceFromKey(password, key, outcome) ==
    LET iv == <<Slice([random |-> key], 1, ivLength)>>
        encrypted == cipherUpdate(key, iv, utf8Write(password))
        tag == getAuthTag(key, iv, encrypted)
    IN  iv \o tag \o encrypted

\* encryptNasPassword(password, key): the nonce drawn by randomBytes(12), the
\* tag and the ciphertext, in this order
encryptNasPassword(password, key, outcome) ==
    LET iv == randomBytes(ivLength, outcome)
        encrypted == cipherUpdate(key, iv, utf8Write(password))
        tag == getAuthTag(key, iv, encrypted)
    IN  iv \o tag \o encrypted

\* the tag read one byte late
decryptNasPasswordSplitLate(data, key) ==
    LET iv == subarray(data, 0, ivLength)
        tag == subarray(data, ivLength + 1, ivLength + 1 + authTagLength)
        encrypted == subarray(data, ivLength + 1 + authTagLength, byteLength(data))
        plain == decipherFinal(key, iv, tag, encrypted)
    IN  [threw |-> plain.threw, password |-> utf8Slice(plain.bytes)]

decryptNasPassword(data, key) ==
    LET iv == subarray(data, 0, ivLength)
        tag == subarray(data, ivLength, ivLength + authTagLength)
        encrypted == subarray(data, ivLength + authTagLength, byteLength(data))
        plain == decipherFinal(key, iv, tag, encrypted)
    IN  [threw |-> plain.threw, password |-> utf8Slice(plain.bytes)]

\* the body of GET /v1/auth/ad/nas-credentials once the row is found: the
\* password under the key, or 500 when unsealing throws
nasCredentials(value, key, normalizedUsername) ==
    LET decrypted == decryptNasPassword(value, key)
    IN  IF decrypted.threw
            THEN [code |-> 500, username |-> None, password |-> None,
                  error |-> "Failed to decrypt credentials"]
        ELSE [code |-> 200, username |-> Some(normalizedUsername),
              password |-> Some(decrypted.password), error |-> ""]

\* nothing sealed yet
NoVault == [sealed |-> None, data |-> None, flipped |-> 0, unsealed |-> None]

-----------------------------------------------------------------------------
(* The LDAP module *)

\* getConfig(): the servers of LDAP_SERVERS in order, and the NetBIOS name
getConfig(servers) == [servers |-> servers, netbios |-> <<"G", "S", "-", "A", "D">>]

\* the configurations: one server, two servers, ...
Configs == {getConfig([i \in 1..n |-> i]) : n \in 1..MaxServers}

\* the user name after its first backslash
cleanUsernameOnce(username) ==
    IF \A i \in 1..Len(username) : username[i] # "\\" THEN username
    ELSE LET first == CHOOSE i \in 1..Len(username) :
                          /\ username[i] = "\\"
                          /\ \A j \in 1..(i - 1) : username[j] # "\\"
         IN  SubSeq(username, first + 1, Len(username))

\* username.includes('\\') ? username.split('\\').pop() : username
RECURSIVE cleanUsername(_)
cleanUsername(username) ==
    IF \A i \in 1..Len(username) : username[i] # "\\" THEN username
    ELSE cleanUsername(Tail(username))

\* err.message of a failed bind or unbind
ErrorMessages == {"Invalid credentials during a bind operation",
                  "connect ECONNREFUSED", "Connection timeout", "Socket closed"}

\* msg.includes('connect') || msg.includes('timeout') || msg.includes('ECONNREFUSED')
isUnavailable(msg) == msg \in {"connect ECONNREFUSED", "Connection timeout"}

\* What one server does to the client made for it: the outcome of
\* client.bind ("ok" or the message of the error thrown), and the outcomes of
\* the client.unbind calls that follow, in order.  A bind that succeeds is
\* followed by the unbind of the try block and, when that one throws, by the
\* unbind of the catch block; a bind that throws is followed by the unbind
\* of the catch block alone.
ServerOutcomes ==
    {[bind |-> "ok", unbind |-> <<"ok">>],
     [bind |-> "ok", unbind |-> <<"Socket closed", "ok">>],
     [bind |-> "ok", unbind |-> <<"Socket closed", "Socket closed">>]}
    \cup {[bind |-> msg, unbind |-> <<u>>] :
              msg \in ErrorMessages \ {"Socket closed"}, u \in {"ok", "Socket closed"}}

\* one line of what authenticate did, in order
Did(op, server, outcome) == [op |-> op, server |-> server, outcome |-> outcome]

\* a catch block that logs and leaves the connection as it is
catchWithoutRelease(server, msg, unbind) ==
    <<Did(IF isUnavailable(msg) THEN "warn" ELSE "log", server, msg)>>

\* the catch block: the log line and the release whose error is ignored
catch(server, msg, unbind) ==
    <<Did(IF isUnavailable(msg) THEN "warn" ELSE "log", server, msg),
      Did("unbind", server, unbind)>>

\* a loop that goes on to the next server after a connection error only, and
\* returns the failure when a server rejects the bind
RECURSIVE tryServersStoppingAtRejection(_, _, _)
tryServersStoppingAtRejection(i, servers, env) ==
    IF i > Len(servers)
        THEN [success |-> FALSE, error |-> "Invalid credentials", did |-> <<>>]
    ELSE LET server == servers[i]
             client == env[server]
             rest == IF client.bind # "ok" /\ ~isUnavailable(client.bind)
                         THEN [success |-> FALSE, error |-> "Invalid credentials", did |-> <<>>]
                         ELSE tryServersStoppingAtRejection(i + 1, servers, env)
             opened == <<Did("new Client", server, "ok"), Did("bind", server, client.bind)>>
         IN  IF client.bind # "ok"
                 THEN [rest EXCEPT !.did = opened \o catch(server, client.bind, client.unbind[1])
                                           \o rest.did]
             ELSE IF client.unbind[1] # "ok"
                 THEN [rest EXCEPT !.did = opened
                                           \o <<Did("unbind", server, client.unbind[1])>>
                                           \o catch(server, client.unbind[1], client.unbind[2])
                                           \o rest.did]
             ELSE [success |-> TRUE, error |-> "",
                   did |-> opened \o <<Did("unbind", server, "ok"),
                                       Did("log", server, "Auth success")>>]

\* the loop of authenticate from the i-th server on
RECURSIVE tryServers(_, _, _)
tryServers(i, servers, env) ==
    IF i > Len(servers)
        THEN [success |-> FALSE, error |-> "Invalid credentials", did |-> <<>>]
    ELSE LET server == servers[i]
             client == env[server]
             rest == tryServers(i + 1, servers, env)
             opened == <<Did("new Client", server, "ok"), Did("bind", server, client.bind)>>
         IN  IF client.bind # "ok"
                 THEN [rest EXCEPT !.did = opened \o catch(server, client.bind, client.unbind[1])
                                           \o rest.did]
             ELSE IF client.unbind[1] # "ok"
                 THEN [rest EXCEPT !.did = opened
                                           \o <<Did("unbind", server, client.unbind[1])>>
                                           \o catch(server, client.unbind[1], client.unbind[2])
                                           \o rest.did]
             ELSE [success |-> TRUE, error |-> "",
                   did |-> opened \o <<Did("unbind", server, "ok"),
                                       Did("log", server, "Auth success")>>]

\* an authenticate whose failure carries the message of the last error caught
authenticateReportingCause(username, password, config, env) ==
    LET name == cleanUsername(username)
        bindDn == config.netbios \o <<"\\">> \o name
        tried == tryServers(1, config.servers, env)
        caught == {i \in 1..Len(tried.did) : tried.did[i].op \in {"warn", "log"}}
        last == CHOOSE i \in caught : \A j \in caught : j <= i
    IN  [success |-> tried.success,
         error |-> IF tried.success THEN "" ELSE tried.did[last].outcome,
         bindDn |-> bindDn, password |-> password, did |-> tried.did]

\* an authenticate that binds under the prefix the client supplied, when
\* there is one
authenticateWithClientPrefix(username, password, config, env) ==
    LET name == cleanUsername(username)
        bindDn == IF name = username THEN config.netbios \o <<"\\">> \o name ELSE username
        tried == tryServers(1, config.servers, env)
    IN  [success |-> tried.success, error |-> tried.error,
         bindDn |-> bindDn, password |-> password, did |-> tried.did]

\* authenticate(username, password) under a configuration, the servers
\* behaving as env says
authenticate(username, password, config, env) ==
    LET name == cleanUsername(username)
        bindDn == config.netbios \o <<"\\">> \o name
        tried == tryServers(1, config.servers, env)
    IN  [success |-> tried.success, error |-> tried.error,
         bindDn |-> bindDn, password |-> password, did |-> tried.did]

-----------------------------------------------------------------------------
(* Directory login: requests and replies *)

\* a derivation from the user name as submitted
deriveIdentityOfSubmitted(secret, username) ==
    [masterSecret |-> secret,
     username |-> username,
     normalizedUsername |-> cleanUsername(username),
     publicKeyHash |-> digest(sha256(publicKeyHashInput(secret, username)), "hex"),
     secret |-> digest(sha256(secretHashInput(secret, username)), "base64url"),
     nasCredKey |-> deriveNasCredKey(secret, username)]

\* what POST /v1/auth/ad derives for a login: the normalized user name, the
\* account identifier, the login secret and the key of the vault
deriveIdentity(secret, username) ==
    LET normalizedUsername == cleanUsername(username)
    IN  [masterSecret |-> secret,
         username |-> username,
         normalizedUsername |-> normalizedUsername,
         publicKeyHash |-> digest(sha256(publicKeyHashInput(secret, normalizedUsername)), "hex"),
         secret |-> digest(sha256(secretHashInput(secret, normalizedUsername)), "base64url"),
         nasCredKey |-> deriveNasCredKey(secret, normalizedUsername)]

\* a reply of a directory-login endpoint, with the request it answers and
\* what the handler did on the way
AdReply(endpoint, request, did, code, body) ==
    [endpoint |-> endpoint, request |-> request, did |-> did, code |-> code, body |-> body]

NoAdReply == AdReply("none", <<>>, <<>>, 0, <<>>)

\* the LDAP servers of the server that takes the directory logins
AdConfig == getConfig(<<1>>)

\* the logins submitted to POST /v1/auth/ad
AdUsernames == {<<"a">>, <<"a", "a">>, <<"a", "\\", "a">>}

AdPasswords == {p \in Passwords : Len(p) = 1 /\ p[1] \in {120, highSurrogate}}

\* a handler that goes on whatever ldapAuthenticate returned
isRejectedNever(result) == FALSE

\* if (!result.success) return reply.code(401)
isRejected(result) == ~result.success

\* a failure of the try block that is not caught
catchStoreFailureRethrown(e) == "thrown"

\* catch (e) { log(...) }: the failure to seal or store is logged and the
\* handler goes on
catchStoreFailure(e) == "logged"

\* an upsert that creates and never updates
upsertKVCreateOnly(table, accountId, key, value) ==
    IF \E row \in table : row.accountId = accountId /\ row.key = key
        THEN table
        ELSE table \cup {[accountId |-> accountId, key |-> key, value |-> value]}

\* db.userKVStore.upsert({ where: { accountId_key }, update: { value }, create })
upsertKV(table, accountId, key, value) ==
    IF \E row \in table : row.accountId = accountId /\ row.key = key
        THEN {IF row.accountId = accountId /\ row.key = key
                 THEN [row EXCEPT !.value = value]
                 ELSE row : row \in table}
        ELSE table \cup {[accountId |-> accountId, key |-> key, value |-> value]}

\* the user name after its last backslash, the name the history of the
\* logins is kept under
lastSegment(username) ==
    LET slashes == {i \in 1..Len(username) : username[i] = "\\"}
        last == IF slashes = {} THEN 0 ELSE CHOOSE i \in slashes : \A j \in slashes : j <= i
    IN  SubSeq(username, last + 1, Len(username))

\* a directory login suspended at the await of db.userKVStore.upsert: its
\* request, what ldapAuthenticate returned to it, and the account it upserted
AdHandler(username, password, success, userId) ==
    [username |-> username, password |-> password, success |-> success, userId |-> userId]

\* the request of POST /v1/auth/ad
AdLogin(username, password) == [username |-> username, password |-> password]

\* what the handler of POST /v1/auth/ad did before it replied: the success
\* ldapAuthenticate returned, the account it upserted, and how the try block
\* that seals and stores ended ("ok", "throw" or "" when not entered)
AdDid(success, userId, stored) == [success |-> success, userId |-> userId, stored |-> stored]

\* the bodies of POST /v1/auth/ad; the body of the 401 has no success
\* property
AdBody(success, token, secret, error) ==
    [success |-> success, token |-> token, secret |-> secret, error |-> error]


-----------------------------------------------------------------------------
(* JavaScript numbers and 32-bit operators *)

\* a number is kept as <<hi, lo>>, its value hi * 2^16 + lo with
\* 0 <= lo < 2^16: every integer the hash works with, signed or not, is
\* held exactly
limb == 2^16

Number == Int \X (0..(limb - 1))

\* x >>> 0: the value modulo 2^32
ToUint32(x) == <<x[1] % limb, x[2]>>

\* the value as a signed 32-bit integer: what an Int32Array keeps, what
\* getInt32 reads and what the operators ^ & | ~ << return
ToInt32(x) == <<((x[1] + limb \div 2) % limb) - limb \div 2, x[2]>>

\* x + y, exact
Plus(x, y) == <<x[1] + y[1] + (x[2] + y[2]) \div limb, (x[2] + y[2]) % limb>>

\* x < y on the values
LessThan(x, y) == x[1] < y[1] \/ (x[1] = y[1] /\ x[2] < y[2])

\* & | ^ on two nibbles, bit by bit
Nibbles ==
    [op \in {"&", "|", "^"} |-> [a \in 0..15 |-> [b \in 0..15 |->
        LET both == (a % 2) * (b % 2) + ((a \div 2) % 2) * ((b \div 2) % 2) * 2
                        + ((a \div 4) % 2) * ((b \div 4) % 2) * 4 + (a \div 8) * (b \div 8) * 8
        IN  CASE op = "&" -> both
              [] op = "|" -> a + b - both
              [] op = "^" -> a + b - 2 * both]]]

\* a nibble table applied to the four nibbles of two 16-bit values
Limbwise(table, a, b) ==
    table[a \div 4096][b \div 4096] * 4096
        + table[(a \div 256) % 16][(b \div 256) % 16] * 256
        + table[(a \div 16) % 16][(b \div 16) % 16] * 16
        + table[a % 16][b % 16]

\* x & y, x | y, x ^ y: the operator on the 32 bits of either operand, the
\* result an int32; a function, its operands are values as the operands of
\* the JavaScript operators are
Bitwise ==
    [op \in {"&", "|", "^"}, x \in Number, y \in Number |->
        ToInt32(<<Limbwise(Nibbles[op], x[1] % limb, y[1] % limb),
                  Limbwise(Nibbles[op], x[2], y[2])>>)]

\* ~x
Not(x) == ToInt32(<<limb - 1 - (x[1] % limb), limb - 1 - x[2]>>)

\* x >>> n for 0 < n < 32: a uint32
ShiftRightUnsigned(x, n) ==
    LET u == ToUint32(x)
    IN  IF n >= 16
            THEN <<0, u[1] \div 2^(n - 16)>>
            ELSE <<u[1] \div 2^n, (u[1] % 2^n) * 2^(16 - n) + u[2] \div 2^n>>

\* x << n for 0 < n < 32: an int32
ShiftLeft(x, n) ==
    LET u == ToUint32(x)
    IN  IF n >= 16
            THEN ToInt32(<<(u[2] * 2^(n - 16)) % limb, 0>>)
            ELSE ToInt32(<<(u[1] * 2^n + u[2] \div 2^(16 - n)) % limb,
                           (u[2] * 2^n) % limb>>)


(* The client's SHA-512 and HMAC: hmac_sha512.web.ts *)

\* const K: the round constants, high word and low word in turn
K == <<
       <<17034, 12184>>, <<55080, 44578>>, <<28983, 17553>>, <<9199, 26061>>, <<46528, 64463>>, <<60493, 15151>>, <<59829, 56229>>, <<33161, 56252>>,
       <<14678, 49755>>, <<62280, 46392>>, <<23025, 4593>>, <<46597, 53273>>, <<37439, 33444>>, <<44825, 20379>>, <<43804, 24277>>, <<55917, 33048>>,
       <<55303, 43672>>, <<41731, 578>>, <<4739, 23297>>, <<17776, 28606>>, <<9265, 34238>>, <<20196, 45708>>, <<21772, 32195>>, <<54783, 46306>>,
       <<29374, 23924>>, <<62075, 35183>>, <<32990, 45566>>, <<15126, 38577>>, <<39900, 1703>>, <<9671, 4661>>, <<49563, 61812>>, <<53097, 9876>>,
       <<58523, 27073>>, <<40689, 19154>>, <<61374, 18310>>, <<14415, 9699>>, <<4033, 40390>>, <<35724, 54709>>, <<9228, 41420>>, <<30636, 40037>>,
       <<11753, 11375>>, <<22827, 629>>, <<19060, 33962>>, <<28326, 58499>>, <<23728, 43484>>, <<48449, 64468>>, <<30457, 35034>>, <<33553, 21429>>,
       <<38974, 20818>>, <<61030, 57259>>, <<43057, 50797>>, <<11700, 12816>>, <<45059, 10184>>, <<39163, 8511>>, <<48985, 32711>>, <<48879, 3812>>,
       <<50912, 3059>>, <<15784, 36802>>, <<54695, 37191>>, <<37642, 42789>>, <<1738, 25425>>, <<57347, 33391>>, <<5161, 10599>>, <<2574, 28272>>,
       <<10167, 2693>>, <<18130, 12284>>, <<11803, 8504>>, <<23590, 51494>>, <<19756, 28156>>, <<23236, 10989>>, <<21304, 3347>>, <<40341, 46047>>,
       <<25866, 29524>>, <<35759, 25566>>, <<30314, 2747>>, <<15479, 45736>>, <<33218, 51502>>, <<18413, 44774>>, <<37490, 11397>>, <<5250, 13627>>,
       <<41663, 59553>>, <<19697, 868>>, <<43034, 26187>>, <<48194, 12289>>, <<49739, 35696>>, <<53496, 38801>>, <<51052, 20899>>, <<1620, 48688>>,
       <<53650, 59417>>, <<55023, 21016>>, <<54937, 1572>>, <<21861, 43280>>, <<62478, 13701>>, <<22385, 8234>>, <<4202, 41072>>, <<12987, 53688>>,
       <<6564, 49430>>, <<47314, 53448>>, <<7735, 27656>>, <<20801, 43859>>, <<10056, 30540>>, <<57230, 60313>>, <<13488, 48309>>, <<57755, 18600>>,
       <<14620, 3251>>, <<50633, 23139>>, <<20184, 43594>>, <<58177, 35531>>, <<23452, 51791>>, <<30563, 58227>>, <<26670, 28659>>, <<54962, 47267>>,
       <<29839, 33518>>, <<24047, 45820>>, <<30885, 25455>>, <<17175, 12128>>, <<33992, 30740>>, <<41456, 43890>>, <<36039, 520>>, <<6756, 14828>>,
       <<37054, 65530>>, <<9059, 7720>>, <<42064, 27883>>, <<56962, 48617>>, <<48889, 41975>>, <<45766, 30997>>, <<50801, 30962>>, <<58226, 21291>>,
       <<51751, 16078>>, <<59942, 24988>>, <<53638, 47303>>, <<8640, 49671>>, <<60122, 32214>>, <<52704, 60190>>, <<62845, 20351>>, <<61038, 53624>>,
       <<1776, 26538>>, <<29207, 28602>>, <<2659, 32197>>, <<41672, 39078>>, <<4415, 38916>>, <<48889, 3502>>, <<7025, 2869>>, <<4892, 18203>>,
       <<10459, 30709>>, <<8964, 32132>>, <<13002, 43899>>, <<16583, 9363>>, <<15518, 48650>>, <<5577, 48828>>, <<17181, 26564>>, <<39952, 3404>>,
       <<19653, 54462>>, <<52030, 17078>>, <<22911, 10652>>, <<64613, 32298>>, <<24523, 28587>>, <<15062, 64236>>, <<27716, 6540>>, <<19015, 22551>>
     >>

\* add64(ah, al, bh, bl)
add64(ah, al, bh, bl) ==
    LET lo == ToUint32(Plus(al, bl))
        hi == ToUint32(Plus(Plus(ah, bh), IF LessThan(lo, al) THEN <<0, 1>> ELSE <<0, 0>>))
    IN  <<hi, lo>>

\* [h, l] = add64(xh, xl, yh, yl): the call on the halves of two words
sum64 == [x \in Number \X Number, y \in Number \X Number |-> add64(x[1], x[2], y[1], y[2])]

\* rotr64(h, l, n)
rotr64(h, l, n) ==
    IF n < 32
        THEN <<ToUint32(Bitwise["|", ShiftRightUnsigned(h, n), ShiftLeft(l, 32 - n)]),
               ToUint32(Bitwise["|", ShiftRightUnsigned(l, n), ShiftLeft(h, 32 - n)])>>
        ELSE <<ToUint32(Bitwise["|", ShiftRightUnsigned(l, n - 32), ShiftLeft(h, 32 - (n - 32))]),
               ToUint32(Bitwise["|", ShiftRightUnsigned(h, n - 32), ShiftLeft(l, 32 - (n - 32))])>>

\* shr64(h, l, n)
shr64(h, l, n) ==
    IF n < 32
        THEN <<ToUint32(ShiftRightUnsigned(h, n)),
               ToUint32(Bitwise["|", ShiftRightUnsigned(l, n), ShiftLeft(h, 32 - n)])>>
        ELSE <<<<0, 0>>, ToUint32(ShiftRightUnsigned(h, n - 32))>>

\* (x ^ y ^ z) >>> 0 on the high halves and on the low halves of three words
xor3 ==
    [x \in Number \X Number, y \in Number \X Number, z \in Number \X Number |->
        <<ToUint32(Bitwise["^", Bitwise["^", x[1], y[1]], z[1]]),
          ToUint32(Bitwise["^", Bitwise["^", x[2], y[2]], z[2]])>>]

\* the initial hash value h0 .. h7
initialHash ==
    <<<<<<27145, 58983>>, <<62396, 51464>>>>, <<<<47975, 44677>>, <<33994, 42811>>>>,
      <<<<15470, 62322>>, <<65172, 63531>>>>, <<<<42319, 62778>>, <<24349, 14065>>>>,
      <<<<20750, 21119>>, <<44518, 33489>>>>, <<<<39685, 26764>>, <<11070, 27679>>>>,
      <<<<8067, 55723>>, <<64321, 48491>>>>, <<<<23520, 52505>>, <<4990, 8569>>>>>>
\* n zero bytes
zeros(n) == [i \in 1..n |-> 0]

\* view.setUint32(offset, value, false): the four bytes of a uint32
setUint32(value) ==
    <<value[1] \div 256, value[1] % 256, value[2] \div 256, value[2] % 256>>

\* a padding that leaves room for a bit length of eight bytes only
paddedForShortLength(data) ==
    LET bitLen == Len(data) * 8
        padLen == ((128 - ((Len(data) + 9) % 128)) % 128) + 9
    IN  data \o <<128>> \o zeros(padLen - 9)
             \o setUint32(<<0, (bitLen \div limb) \div limb>>)
             \o setUint32(<<(bitLen \div limb) % limb, bitLen % limb>>)

\* the padded message: the data, 0x80, zeros, and the bit length in the
\* last eight bytes
padded(data) ==
    LET bitLen == Len(data) * 8
        padLen == ((128 - ((Len(data) + 17) % 128)) % 128) + 17
    IN  data \o <<128>> \o zeros(padLen - 9)
             \o setUint32(<<0, (bitLen \div limb) \div limb>>)
             \o setUint32(<<(bitLen \div limb) % limb, bitLen % limb>>)

\* view.getInt32(offset, false), offset counted from 0
getInt32(bytes, offset) ==
    ToInt32(<<bytes[offset + 1] * 256 + bytes[offset + 2],
              bytes[offset + 3] * 256 + bytes[offset + 4]>>)

\* the message schedule of the block at offset: w[0 .. 15] read from the
\* block, as <<wh[i], wl[i]>>
firstWords(bytes, offset) ==
    [i \in 1..16 |-> <<getInt32(bytes, offset + (i - 1) * 8),
                       getInt32(bytes, offset + (i - 1) * 8 + 4)>>]

\* wh[i] = rh; wl[i] = rl: what the Int32Arrays keep of a word
storedWord(r) == <<ToInt32(r[1]), ToInt32(r[2])>>

\* [rh, rl] of the schedule loop: w[i - 16] + s0 + w[i - 7] + s1, s0 being
\* the xor of w[i - 15] rotated by 1 and by 8 and shifted by 7, s1 that of
\* w[i - 2] rotated by 19 and by 61 and shifted by 6; every sum is add64
\* with the word on the left as its first operand
scheduled(w16, w15, w7, w2) ==
    sum64[sum64[sum64[w16,
                      xor3[rotr64(w15[1], w15[2], 1), rotr64(w15[1], w15[2], 8),
                           shr64(w15[1], w15[2], 7)]],
                w7],
          xor3[rotr64(w2[1], w2[2], 19), rotr64(w2[1], w2[2], 61), shr64(w2[1], w2[2], 6)]]

\* w[i] for i = 16 .. 79, from the words before it (w holds w[0 .. i - 1])
nextWord(w) ==
    storedWord(scheduled(w[Len(w) - 16 + 1], w[Len(w) - 15 + 1], w[Len(w) - 7 + 1],
                         w[Len(w) - 2 + 1]))

\* for (let i = 16; i < 80; i++): the words up to w[n], w holding those so
\* far; the loop is taken half by half, which keeps the evaluation shallow
RECURSIVE schedule(_, _)
schedule(w, n) ==
    IF Len(w) > n THEN w
    ELSE IF Len(w) = n THEN Append(w, nextWord(w))
    ELSE schedule(schedule(w, (Len(w) + n) \div 2), n)

\* [t1h, t1l] of a round: h + S1 + ch + K[i] + w[i], S1 being the xor of e
\* rotated by 14, 18 and 41, and ch being (e & f) ^ (~e & g)
temp1(e, f, g, h, k, wi) ==
    sum64[sum64[sum64[sum64[h, xor3[rotr64(e[1], e[2], 14), rotr64(e[1], e[2], 18),
                                    rotr64(e[1], e[2], 41)]],
                      <<ToUint32(Bitwise["^", Bitwise["&", e[1], f[1]], Bitwise["&", Not(e[1]), g[1]]]),
                        ToUint32(Bitwise["^", Bitwise["&", e[2], f[2]], Bitwise["&", Not(e[2]), g[2]]])>>],
                k],
          wi]

\* [t2h, t2l] of a round: S0 + maj, S0 being the xor of a rotated by 28, 34
\* and 39, and maj being (a & b) ^ (a & c) ^ (b & c)
temp2(a, b, c) ==
    sum64[xor3[rotr64(a[1], a[2], 28), rotr64(a[1], a[2], 34), rotr64(a[1], a[2], 39)],
          <<ToUint32(Bitwise["^", Bitwise["^", Bitwise["&", a[1], b[1]], Bitwise["&", a[1], c[1]]],
                                  Bitwise["&", b[1], c[1]]]),
            ToUint32(Bitwise["^", Bitwise["^", Bitwise["&", a[2], b[2]], Bitwise["&", a[2], c[2]]],
                                  Bitwise["&", b[2], c[2]]])>>]

\* the end of a round: h = g, g = f, f = e, e = d + t1, d = c, c = b, b = a,
\* a = t1 + t2
moved(v, t1, t2) == <<sum64[t1, t2], v[1], v[2], v[3], sum64[v[4], t1], v[5], v[6], v[7]>>

\* one round of the compression: v is <<a, b, c, d, e, f, g, h>>, i from 0
round(v, w, i) ==
    moved(v, temp1(v[5], v[6], v[7], v[8], SubSeq(K, i * 2 + 1, i * 2 + 2), w[i + 1]),
          temp2(v[1], v[2], v[3]))

\* for (let i = 0; i < 80; i++): the rounds up to round n - 1, one for each
\* word of the schedule, vs holding the working variables before each round
\* so far; half by half as well
RECURSIVE rounds(_, _, _)
rounds(vs, w, n) ==
    IF Len(vs) > n THEN vs
    ELSE IF Len(vs) = n THEN Append(vs, round(vs[n], w, n - 1))
    ELSE rounds(rounds(vs, w, (Len(vs) + n) \div 2), w, n)

\* [h0h, h0l] = add64(h0h, h0l, ah, al) and so on to h7: the working
\* variables added to the hash value
added(h, v) ==
    <<sum64[h[1], v[1]], sum64[h[2], v[2]], sum64[h[3], v[3]], sum64[h[4], v[4]],
      sum64[h[5], v[5]], sum64[h[6], v[6]], sum64[h[7], v[7]], sum64[h[8], v[8]]>>

\* one block: the eighty rounds from the hash value h over the schedule w,
\* and their outcome added to h
compressed(h, w) == added(h, rounds(<<h>>, w, Len(w))[Len(w) + 1])

\* for (let offset = 0; offset < padded.length; offset += 128): the blocks
\* from offset on, h being the hash value so far
RECURSIVE blocks(_, _, _)
blocks(h, bytes, offset) ==
    IF offset >= Len(bytes) THEN h
    ELSE blocks(compressed(h, schedule(firstWords(bytes, offset), 79)), bytes, offset + 128)

\* the result: the eight words of the hash value, high half then low half,
\* four bytes each
resultBytes(h) ==
    [k \in 1..64 |->
        setUint32(h[((k - 1) \div 8) + 1][(((k - 1) \div 4) % 2) + 1])[((k - 1) % 4) + 1]]

\* sha512(data)
sha512(data) == resultBytes(blocks(initialHash, padded(data), 0))

\* const blockSize = 128
blockSize == 128

\* paddedKey.set(actualKey): the array with the source written from its start
set(array, source) == [i \in 1..Len(array) |-> IF i <= Len(source) THEN source[i] ELSE array[i]]

\* the key with every byte xored with a byte
keyed(paddedKey, byte) == [i \in 1..Len(paddedKey) |-> Limbwise(Nibbles["^"], paddedKey[i], byte)]

\* the two hashes of the HMAC over the padded key
hmac(paddedKey, data) == sha512(keyed(paddedKey, 92) \o sha512(keyed(paddedKey, 54) \o data))

\* an HMAC that hashes the key from the block size on
hmac_sha512HashingFullBlock(key, data) ==
    hmac(set(zeros(blockSize), IF Len(key) >= blockSize THEN sha512(key) ELSE key), data)

\* hmac_sha512(key, data)
hmac_sha512(key, data) ==
    hmac(set(zeros(blockSize), IF Len(key) > blockSize THEN sha512(key) ELSE key), data)


-----------------------------------------------------------------------------
(* The initial state *)

\* the state of a server started with the given HANDY_MASTER_SECRET
InitEnv(secret) ==
    /\ terminalAuthRequest = {}
    /\ accountAuthRequest = {}
    /\ account = {}
    /\ inflight = EmptyBag
    /\ reply = NoReply
    /\ authReply = NoAuthReply
    /\ masterSecret = secret
    /\ userKVStore = {}
    /\ adInflight = EmptyBag
    /\ adReply = NoAdReply
    /\ issued = {}
    /\ ldapCall = None
    /\ vault = NoVault
    /\ derivation = None
    /\ sealCalls = <<>>
    /\ hashCall = None
    /\ received = {}

Init == InitEnv(<<"k">>)

-----------------------------------------------------------------------------
(* Terminal-level pairing *)

\* POST /v1/auth/request
PostAuthRequest(publicKey, supportsV2) ==
    LET publicKeyHex == encodeHex(publicKey)
        stored == upsert("terminalAuthRequest", terminalAuthRequest, publicKeyHex,
                         [publicKey |-> publicKeyHex,
                          supportsV2 |-> IF supportsV2 = None THEN FALSE ELSE supportsV2[1]])
        answer == findUnique(stored, publicKeyHex)[1]
    IN  /\ IF ~isValid(publicKey)
              THEN /\ reply' = [Reply("request", publicKey, 401, InvalidPublicKey, 0)
                                    EXCEPT !.supportsV2 = supportsV2]
                   /\ UNCHANGED terminalAuthRequest
              ELSE /\ terminalAuthRequest' = stored
                   /\ reply' = [Reply("request", publicKey, 200,
                                      pollBody(answer, Some(answer.id)), 1)
                                    EXCEPT !.supportsV2 = supportsV2]
        /\ UNCHANGED <<accountAuthRequest, account, inflight, authReply, directoryVars, pureVars>>

\* GET /v1/auth/request/status
GetAuthRequestStatus(publicKey) ==
    LET authRequest == findUnique(terminalAuthRequest, encodeHex(publicKey))
    IN  /\ IF ~isValid(publicKey)
              THEN reply' = Reply("status", publicKey, 200, statusBody(None), 0)
              ELSE reply' = Reply("status", publicKey, 200, statusBody(authRequest), 1)
        /\ UNCHANGED <<terminalAuthRequest, accountAuthRequest, account, inflight, authReply, directoryVars, pureVars>>

\* POST /v1/auth/response, up to the reply or to the await of the update: the key
\* check and findUnique; for a missing request findMany and the 404; for a request
\* whose response is truthy no update and the 200 at once
PostAuthResponseFind(publicKey, response, userId) ==
    LET authRequest == findUnique(terminalAuthRequest, encodeHex(publicKey))
    IN  /\ IF ~isValid(publicKey)
              THEN /\ reply' = Reply("response", publicKey, 401, InvalidPublicKey, 0)
                   /\ UNCHANGED inflight
           ELSE IF authRequest = None
              THEN /\ reply' = Reply("response", publicKey, 404, NotFound, 2)
                   /\ UNCHANGED inflight
           ELSE IF Truthy(authRequest[1].response)
              THEN /\ reply' = Reply("response", publicKey, 200, Success, 1)
                   /\ UNCHANGED inflight
           ELSE /\ BagCardinality(inflight) < Racers
                /\ inflight' = inflight (+) SetToBag(
                        {Handler("response", publicKey, response, userId, authRequest[1])})
                /\ UNCHANGED reply
        /\ UNCHANGED <<terminalAuthRequest, accountAuthRequest, account, authReply, directoryVars, pureVars>>

\* POST /v1/auth/response resumed: findUnique returned a row whose response is falsy,
\* so the handler updates the row of that id, whatever the row holds by now, and replies
PostAuthResponseUpdate ==
    \E h \in BagToSet(inflight) :
        /\ h.endpoint = "response"
        /\ terminalAuthRequest' =
                update(terminalAuthRequest, h.authRequest.id,
                       approveData(h.response, h.userId))
        /\ reply' = Reply("response", h.publicKey, 200, Success, 2)
        /\ inflight' = inflight (-) SetToBag({h})
        /\ UNCHANGED <<accountAuthRequest, account, authReply, directoryVars, pureVars>>

-----------------------------------------------------------------------------
(* Account-level pairing *)

\* an account-level poll that registers a key of any length
PostAuthAccountRequestUnchecked(publicKey) ==
    LET publicKeyHex == encodeHex(publicKey)
        stored == upsert("accountAuthRequest", accountAuthRequest, publicKeyHex,
                         [publicKey |-> publicKeyHex])
        answer == findUnique(stored, publicKeyHex)[1]
    IN  /\ accountAuthRequest' = stored
        /\ reply' = Reply("account/request", publicKey, 200, pollBody(answer, None), 1)
        /\ UNCHANGED <<terminalAuthRequest, account, inflight, authReply, directoryVars, pureVars>>

\* POST /v1/auth/account/request
PostAuthAccountRequest(publicKey) ==
    LET publicKeyHex == encodeHex(publicKey)
        stored == upsert("accountAuthRequest", accountAuthRequest, publicKeyHex,
                         [publicKey |-> publicKeyHex])
        answer == findUnique(stored, publicKeyHex)[1]
    IN  /\ IF ~isValid(publicKey)
              THEN /\ reply' = Reply("account/request", publicKey, 401, InvalidPublicKey, 0)
                   /\ UNCHANGED accountAuthRequest
              ELSE /\ accountAuthRequest' = stored
                   /\ reply' = Reply("account/request", publicKey, 200, pollBody(answer, None), 1)
        /\ UNCHANGED <<terminalAuthRequest, account, inflight, authReply, directoryVars, pureVars>>

\* an approval that registers the request it does not find and approves it
PostAuthAccountResponseUpsert(publicKey, response, userId) ==
    LET publicKeyHex == encodeHex(publicKey)
        stored == upsert("accountAuthRequest", accountAuthRequest, publicKeyHex,
                         [publicKey |-> publicKeyHex])
        authRequest == findUnique(stored, publicKeyHex)[1]
    IN  /\ isValid(publicKey)
        /\ ~Truthy(authRequest.response)
        /\ accountAuthRequest' = update(stored, authRequest.id, approveData(response, userId))
        /\ reply' = Reply("account/response", publicKey, 200, Success, 2)
        /\ UNCHANGED <<terminalAuthRequest, account, inflight, authReply, directoryVars, pureVars>>

\* POST /v1/auth/account/response, up to the reply or to the await of the update
PostAuthAccountResponseFind(publicKey, response, userId) ==
    LET authRequest == findUnique(accountAuthRequest, encodeHex(publicKey))
    IN  /\ IF ~isValid(publicKey)
              THEN /\ reply' = Reply("account/response", publicKey, 401, InvalidPublicKey, 0)
                   /\ UNCHANGED inflight
           ELSE IF authRequest = None
              THEN /\ reply' = Reply("account/response", publicKey, 404, NotFound, 1)
                   /\ UNCHANGED inflight
           ELSE IF Truthy(authRequest[1].response)
              THEN /\ reply' = Reply("account/response", publicKey, 200, Success, 1)
                   /\ UNCHANGED inflight
           ELSE /\ BagCardinality(inflight) < Racers
                /\ inflight' = inflight (+) SetToBag(
                        {Handler("account/response", publicKey, response, userId, authRequest[1])})
                /\ UNCHANGED reply
        /\ UNCHANGED <<terminalAuthRequest, accountAuthRequest, account, authReply, directoryVars, pureVars>>

\* an account-level approval that approves the terminal-level request of the
\* same key as well
PostAuthAccountResponseUpdateBothTables ==
    \E h \in BagToSet(inflight) :
        /\ h.endpoint = "account/response"
        /\ accountAuthRequest' =
                update(accountAuthRequest, h.authRequest.id,
                       approveData(h.response, h.userId))
        /\ terminalAuthRequest' =
                {IF row.publicKey = encodeHex(h.publicKey)
                    THEN [row EXCEPT !.response = Some(h.response),
                                     !.responseAccountId = Some(h.userId)]
                    ELSE row : row \in terminalAuthRequest}
        /\ reply' = Reply("account/response", h.publicKey, 200, Success, 2)
        /\ inflight' = inflight (-) SetToBag({h})
        /\ UNCHANGED <<account, authReply, directoryVars, pureVars>>

\* POST /v1/auth/account/response resumed: the update of the row of that id and the reply
PostAuthAccountResponseUpdate ==
    \E h \in BagToSet(inflight) :
        /\ h.endpoint = "account/response"
        /\ accountAuthRequest' =
                update(accountAuthRequest, h.authRequest.id,
                       approveData(h.response, h.userId))
        /\ reply' = Reply("account/response", h.publicKey, 200, Success, 2)
        /\ inflight' = inflight (-) SetToBag({h})
        /\ UNCHANGED <<terminalAuthRequest, account, authReply, directoryVars, pureVars>>

-----------------------------------------------------------------------------
(* The pairing endpoints under concurrent callers *)

\* the endpoints with no requester watched
Next ==
    \/ \E publicKey \in PublicKeys, supportsV2 \in SupportsV2Inputs :
            PostAuthRequest(publicKey, supportsV2) /\ UNCHANGED received
    \/ \E publicKey \in PublicKeys :
            GetAuthRequestStatus(publicKey) /\ UNCHANGED received
    \/ \E publicKey \in PublicKeys, response \in Responses, userId \in UserIds :
            PostAuthResponseFind(publicKey, response, userId) /\ UNCHANGED received
    \/ PostAuthResponseUpdate /\ UNCHANGED received
    \/ \E publicKey \in PublicKeys :
            PostAuthAccountRequest(publicKey) /\ UNCHANGED received
    \/ \E publicKey \in PublicKeys, response \in Responses, userId \in UserIds :
            PostAuthAccountResponseFind(publicKey, response, userId) /\ UNCHANGED received
    \/ PostAuthAccountResponseUpdate /\ UNCHANGED received

Spec == Init /\ [][Next]_vars

\* the requester of a key keeps polling: the client's loop sends the next
\* POST /v1/auth/request when the last one was answered
KeepsPolling(publicKey) ==
    \E supportsV2 \in SupportsV2Inputs :
        PostAuthRequest(publicKey, supportsV2) /\ UNCHANGED received

\* the endpoints under fair scheduling: every requester keeps polling, and a
\* handler suspended at the await of its update resumes when the store answers
SpecLive ==
    /\ Spec
    /\ \A publicKey \in PublicKeys : WF_vars(KeepsPolling(publicKey))
    /\ WF_vars(PostAuthResponseUpdate /\ UNCHANGED received)
    /\ WF_vars(PostAuthAccountResponseUpdate /\ UNCHANGED received)

\* the sender of a poll keeps what the poll returned: the token and the
\* response of a reply with state authorized.  The sender is the requester,
\* which holds the private key of the public key it polls with, or a party
\* that knows the public key alone: the request is the same, a body with the
\* public key and supportsV2, sent with no credentials
Receives(holdsPrivateKey) ==
    received' =
        IF reply'.code = 200 /\ reply'.body.state = "authorized"
            THEN received \cup {[holdsPrivateKey |-> holdsPrivateKey,
                                  endpoint |-> reply'.endpoint,
                                  publicKey |-> reply'.publicKey,
                                  token |-> reply'.body.token[1],
                                  response |-> reply'.body.response[1]]}
            ELSE received

\* the terminal-level pairing with its requesters watched: registrations and
\* polls, whose results the requester keeps, and approval calls of any account
NextPolls ==
    \/ \E publicKey \in PublicKeys, supportsV2 \in SupportsV2Inputs,
          holdsPrivateKey \in BOOLEAN :
            PostAuthRequest(publicKey, supportsV2) /\ Receives(holdsPrivateKey)
    \/ \E publicKey \in PublicKeys, response \in Responses, userId \in UserIds :
            PostAuthResponseFind(publicKey, response, userId) /\ UNCHANGED received
    \/ PostAuthResponseUpdate /\ UNCHANGED received

SpecPolls == Init /\ [][NextPolls]_vars

-----------------------------------------------------------------------------
(* Signature-based direct authentication *)

\* POST /v1/auth.  An exception of verify is not caught by the handler: the
\* framework answers 500.
PostAuth(publicKey, challenge, signature) ==
    LET isValidSignature == verify(challenge, signature, publicKey)
        publicKeyHex == encodeHex(publicKey)
        stored == upsertAccount(account, publicKeyHex)
        user == findUnique(stored, publicKeyHex)[1]
    IN  /\ IF isValidSignature = "throw"
              THEN /\ authReply' = AuthReply(publicKey, challenge, signature, 500, None,
                                             "Internal Server Error")
                   /\ UNCHANGED account
           ELSE IF isValidSignature = "false"
              THEN /\ authReply' = AuthReply(publicKey, challenge, signature, 401, None,
                                             "Invalid signature")
                   /\ UNCHANGED account
           ELSE /\ user.updatedAt <= MaxLogins
                /\ account' = stored
                /\ authReply' = AuthReply(publicKey, challenge, signature, 200,
                                          Some(createToken(user.id, None)), "")
        /\ UNCHANGED <<pairingVars, directoryVars, pureVars>>

NextAuth ==
    \E publicKey \in SignPublicKeys, challenge \in Challenges, signature \in Signatures :
        PostAuth(publicKey, challenge, signature)

SpecAuth == Init /\ [][NextAuth]_vars

-----------------------------------------------------------------------------
(* The credential vault on its own *)

\* the user names whose keys seal and unseal
VaultUsernames == {u \in Usernames : Len(u) = 1}

\* encryptNasPassword(password, deriveNasCredKey(masterSecret, username)) on
\* an empty vault, the blob put at rest
VaultSeal(password, username, outcome) ==
    LET key == deriveNasCredKey(masterSecret, username)
    IN  /\ vault.data = None
        /\ vault' = [sealed |-> Some([password |-> password, username |-> username,
                                      outcome |-> outcome]),
                     data |-> Some(encryptNasPassword(password, key, outcome)),
                     flipped |-> 0,
                     unsealed |-> None]
        /\ UNCHANGED <<pairingVars, account, authReply, directoryVars, ldapCall, derivation, sealCalls, hashCall>>

\* the blob at rest is altered in one position
VaultFlip(position) ==
    /\ vault.data # None
    /\ vault.flipped = 0
    /\ position \in 1..byteLength(vault.data[1])
    /\ vault' = [vault EXCEPT !.data = Some(flip(vault.data[1], position)),
                              !.flipped = position,
                              !.unsealed = None]
    /\ UNCHANGED <<pairingVars, account, authReply, directoryVars, ldapCall, derivation, sealCalls, hashCall>>

\* the try block of GET /v1/auth/ad/nas-credentials on the blob at rest, for
\* a query with the given user name
VaultUnseal(username) ==
    LET key == deriveNasCredKey(masterSecret, username)
    IN  /\ vault.data # None
        /\ vault' = [vault EXCEPT !.unsealed =
                         Some([username |-> username,
                               decrypted |-> decryptNasPassword(vault.data[1], key),
                               reply |-> nasCredentials(vault.data[1], key, username)])]
        /\ UNCHANGED <<pairingVars, account, authReply, directoryVars, ldapCall, derivation, sealCalls, hashCall>>

InitVault == \E secret \in MasterSecrets : InitEnv(secret)

NextVault ==
    \/ \E password \in Passwords, username \in VaultUsernames, outcome \in 1..MaxNonces :
            VaultSeal(password, username, outcome)
    \/ \E position \in 1..(ivLength + authTagLength + 4 * MaxPasswordLen) :
            VaultFlip(position)
    \/ \E username \in VaultUsernames : VaultUnseal(username)

SpecVault == InitVault /\ [][NextVault]_vars

-----------------------------------------------------------------------------
(* The sealing calls one after the other *)

\* the passwords sealed
SealPasswords == {p \in Passwords : Len(p) = 1}

\* a call of encryptNasPassword, as the login of the user makes it; the
\* generator draws what it draws, whatever it drew before
Seal(password, username, outcome) ==
    LET key == deriveNasCredKey(masterSecret, username)
    IN  /\ Len(sealCalls) < MaxSeals
        /\ sealCalls' = Append(sealCalls,
                               [key |-> key, password |-> password, outcome |-> outcome,
                                data |-> encryptNasPassword(password, key, outcome)])
        /\ UNCHANGED <<pairingVars, account, authReply, directoryVars, ldapCall, vault,
                       derivation, hashCall>>

NextSeals ==
    \E password \in SealPasswords, username \in VaultUsernames, outcome \in 1..MaxNonces :
        Seal(password, username, outcome)

SpecSeals == Init /\ [][NextSeals]_vars

-----------------------------------------------------------------------------
(* The client's hash on its own *)

\* the numbers the callers of add64 pass as a half word: what >>> 0 left
\* (0, 1, 2^31 - 1, 2^31, 2^32 - 1) and what an Int32Array gave (-2^31, -1)
Halves ==
    {<<0, 0>>, <<0, 1>>, <<32767, 65535>>, <<32768, 0>>, <<65535, 65535>>,
     <<-32768, 0>>, <<-1, 65535>>}

\* n bytes of the same value
Repeat(byte, n) == [i \in 1..n |-> byte]

\* the data hashed: the empty input and the lengths around the padding's
\* turning points
HashData == {Repeat(byte, n) : byte \in {97, 255}, n \in {0, 1, 111, 112, 127, 128}}

\* the keys of the HMAC: short ones, and the lengths around the block size
HmacKeys ==
    {Repeat(byte, n) :
        byte \in {1, 255}, n \in {1} \cup (blockSize - MaxAround)..(blockSize + MaxAround)}

\* the data authenticated
HmacData == {<<>>, <<97>>, Repeat(97, 112)}

\* a call of one of the functions of the file; they keep no state, so one
\* call is looked at
HashCall(fn, args, result) == [fn |-> fn, args |-> args, result |-> result]

CallAdd64(ah, al, bh, bl) ==
    /\ hashCall = None
    /\ hashCall' = Some(HashCall("add64", <<ah, al, bh, bl>>, add64(ah, al, bh, bl)))
    /\ UNCHANGED <<pairingVars, account, authReply, directoryVars, ldapCall, vault,
                   derivation, sealCalls>>

CallSha512(data) ==
    /\ hashCall = None
    /\ hashCall' = Some(HashCall("sha512", <<data>>, sha512(data)))
    /\ UNCHANGED <<pairingVars, account, authReply, directoryVars, ldapCall, vault,
                   derivation, sealCalls>>

CallHmacSha512(key, data) ==
    /\ hashCall = None
    /\ hashCall' = Some(HashCall("hmac_sha512", <<key, data>>, hmac_sha512(key, data)))
    /\ UNCHANGED <<pairingVars, account, authReply, directoryVars, ldapCall, vault,
                   derivation, sealCalls>>

\* the pre-processing of sha512 on its own: the padded message of the data
Padding(data) ==
    /\ hashCall = None
    /\ hashCall' = Some(HashCall("padded", <<data>>, padded(data)))
    /\ UNCHANGED <<pairingVars, account, authReply, directoryVars, ldapCall, vault,
                   derivation, sealCalls>>

NextHash ==
    \/ \E ah \in Halves, al \in Halves, bh \in Halves, bl \in Halves : CallAdd64(ah, al, bh, bl)
    \/ \E data \in HashData : CallSha512(data)
    \/ \E key \in HmacKeys, data \in HmacData : CallHmacSha512(key, data)
    \/ \E byte \in {0, 255}, n \in 0..MaxDataLen : Padding(Repeat(byte, n))

SpecHash == Init /\ [][NextHash]_vars

-----------------------------------------------------------------------------
(* The LDAP module on its own *)

\* the passwords tried against the directory
LdapPasswords == {p \in Passwords : Len(p) = 1}

\* a call of authenticate; the module keeps no state from call to call, so
\* one call is looked at
LdapAuthenticate(username, password, config, env) ==
    /\ ldapCall = None
    /\ ldapCall' = Some([username |-> username, password |-> password,
                         config |-> config, env |-> env,
                         result |-> authenticate(username, password, config, env)])
    /\ UNCHANGED <<pairingVars, account, authReply, directoryVars, vault, derivation, sealCalls, hashCall>>

NextLdap ==
    \E username \in Usernames, password \in LdapPasswords, config \in Configs :
        \E env \in [1..Len(config.servers) -> ServerOutcomes] :
            LdapAuthenticate(username, password, config, env)

SpecLdap == Init /\ [][NextLdap]_vars

-----------------------------------------------------------------------------
(* The identity deriver on its own *)

\* the derivations of two logins, each on a server with its own master
\* secret; the derivation keeps no state, so one pair is looked at
Derive(secret1, username1, secret2, username2) ==
    /\ derivation = None
    /\ derivation' = Some(<<deriveIdentity(secret1, username1),
                            deriveIdentity(secret2, username2)>>)
    /\ UNCHANGED <<pairingVars, account, authReply, directoryVars, ldapCall, vault, sealCalls, hashCall>>

NextDerive ==
    \E secret1 \in MasterSecrets, username1 \in Usernames,
       secret2 \in MasterSecrets, username2 \in Usernames :
        Derive(secret1, username1, secret2, username2)

SpecDerive == Init /\ [][NextDerive]_vars

-----------------------------------------------------------------------------
(* Directory login *)

\* POST /v1/auth/ad up to the reply 401, or through db.account.upsert to the
\* await of db.userKVStore.upsert
AdLoginUpsertAccount(username, password, env) ==
    LET result == authenticate(username, password, AdConfig, env)
        identity == deriveIdentity(masterSecret, username)
        stored == upsertAccount(account, identity.publicKeyHash)
        user == findUnique(stored, identity.publicKeyHash)[1]
    IN  /\ IF isRejected(result)
              THEN /\ adReply' = AdReply("ad", AdLogin(username, password),
                                         AdDid(result.success, None, ""), 401,
                                         AdBody(None, None, None, "Invalid credentials"))
                   /\ UNCHANGED <<account, adInflight>>
           ELSE /\ BagCardinality(adInflight) < AdRacers
                /\ user.updatedAt <= MaxLogins
                /\ account' = stored
                /\ adInflight' = adInflight (+) SetToBag({AdHandler(username, password,
                                                                   result.success, user.id)})
                /\ UNCHANGED adReply
        /\ UNCHANGED <<pairingVars, authReply, masterSecret, userKVStore, issued, pureVars>>

\* POST /v1/auth/ad from the try block that seals and stores the password
\* to the reply; outcome: what randomBytes draws; stored: how the try block
\* ends
AdLoginStoreCredentials(outcome, stored) ==
    \E h \in BagToSet(adInflight) :
        LET identity == deriveIdentity(masterSecret, h.username)
            encryptedPassword == encryptNasPassword(h.password, identity.nasCredKey, outcome)
            token == createToken(h.userId, None)
            request == AdLogin(h.username, h.password)
            did == AdDid(h.success, Some(h.userId), stored)
        IN  /\ adInflight' = adInflight (-) SetToBag({h})
            /\ IF stored = "ok"
                  THEN userKVStore' = upsertKV(userKVStore, h.userId, "nas-credentials",
                                               encryptedPassword)
                  ELSE UNCHANGED userKVStore
            /\ IF stored = "throw" /\ catchStoreFailure(stored) = "thrown"
                  THEN /\ adReply' = AdReply("ad", request, did, 500,
                                             AdBody(None, None, None, "Internal Server Error"))
                       /\ UNCHANGED issued
                  ELSE /\ adReply' = AdReply("ad", request, did, 200,
                                             AdBody(Some(TRUE), Some(token), Some(identity.secret), ""))
                       /\ issued' = issued \cup {[name |-> lastSegment(h.username),
                                                  accountId |-> h.userId,
                                                  secret |-> identity.secret]}
            /\ UNCHANGED <<pairingVars, account, authReply, masterSecret, pureVars>>

NextAd ==
    \/ \E username \in AdUsernames, password \in AdPasswords,
          env \in [1..Len(AdConfig.servers) -> ServerOutcomes] :
            AdLoginUpsertAccount(username, password, env)
    \/ \E outcome \in 1..MaxNonces, stored \in {"ok", "throw"} :
            AdLoginStoreCredentials(outcome, stored)

SpecAd == Init /\ [][NextAd]_vars

-----------------------------------------------------------------------------
(* The two logins over the one account table *)

\* the signature logins looked at next to the directory logins: one key
\* pair, its signatures of a challenge, and a signature of another key pair
AccountsSignatures ==
    {sig \in Signatures : sig.length = signatureLength /\ sig.over = <<1>>}

\* what the directory does in these logins: it accepts, or rejects the password
AccountsOutcomes ==
    {o \in ServerOutcomes :
        o.unbind = <<"ok">> /\ o.bind \in {"ok", "Invalid credentials during a bind operation"}}

NextAccounts ==
    \/ \E challenge \in Challenges, signature \in AccountsSignatures :
            PostAuth(Bytes(signPublicKeyLength, 1), challenge, signature)
    \/ \E username \in AdUsernames, env \in [1..Len(AdConfig.servers) -> AccountsOutcomes] :
            AdLoginUpsertAccount(username, <<120>>, env)
    \/ \E stored \in {"ok", "throw"} : AdLoginStoreCredentials(1, stored)

SpecAccounts == Init /\ [][NextAccounts]_vars

-----------------------------------------------------------------------------
(* Retrieval of the NAS credentials *)

\* a retrieval that reads whichever stored blob unseals under the key of the
\* user name of the query
nasCredentialsReplyOfNamedUser(table, secret, userId, username) ==
    LET key == deriveNasCredKey(secret, cleanUsername(username))
        kv == {row \in table : /\ row.key = "nas-credentials"
                               /\ ~decryptNasPassword(row.value, key).threw}
    IN  IF kv = {}
            THEN [code |-> 404, username |-> None, password |-> None,
                  error |-> "No NAS credentials found. Please log in again."]
            ELSE nasCredentials((CHOOSE row \in kv : TRUE).value, key, cleanUsername(username))

\* what GET /v1/auth/ad/nas-credentials answers to the account userId that
\* asks for username: findUnique by the caller's account and the key
\* 'nas-credentials', 404 when there is no row (a stored Buffer is never
\* falsy), else the row's value unsealed under the key of the user name
nasCredentialsReply(table, secret, userId, username) ==
    LET kv == {row \in table : row.accountId = userId /\ row.key = "nas-credentials"}
    IN  IF kv = {}
            THEN [code |-> 404, username |-> None, password |-> None,
                  error |-> "No NAS credentials found. Please log in again."]
            ELSE nasCredentials((CHOOSE row \in kv : TRUE).value,
                                deriveNasCredKey(secret, cleanUsername(username)),
                                cleanUsername(username))

\* GET /v1/auth/ad/nas-credentials, called by the authenticated account userId
GetNasCredentials(userId, username) ==
    LET body == nasCredentialsReply(userKVStore, masterSecret, userId, username)
    IN  /\ adReply' = AdReply("nas-credentials", [userId |-> userId, username |-> username],
                               <<>>, body.code, body)
        /\ UNCHANGED <<pairingVars, account, authReply, masterSecret, userKVStore, adInflight,
                       issued, pureVars>>

\* directory logins the directory accepts, and retrievals by the accounts
\* that exist
NextCreds ==
    \/ \E username \in AdUsernames, password \in AdPasswords,
          env \in [1..Len(AdConfig.servers) -> AccountsOutcomes] :
            AdLoginUpsertAccount(username, password, env)
    \/ \E outcome \in 1..MaxNonces, stored \in {"ok", "throw"} :
            AdLoginStoreCredentials(outcome, stored)
    \/ \E row \in account, username \in AdUsernames : GetNasCredentials(row.id, username)

SpecCreds == Init /\ [][NextCreds]_vars

-----------------------------------------------------------------------------
(* What the claims speak of *)

\* the table behind an endpoint
Table(endpoint) ==
    IF endpoint \in {"request", "status", "response"}
        THEN terminalAuthRequest
        ELSE accountAuthRequest

\* the table behind an endpoint, after the step
TableAfter(endpoint) ==
    IF endpoint \in {"request", "status", "response"}
        THEN terminalAuthRequest'
        ELSE accountAuthRequest'

\* the step completes the suspended approval handler h
Completes(h) == h \in BagToSet(inflight) /\ inflight' = inflight (-) SetToBag({h})

\* the stored row a suspended handler is about to update
RowOf(h) == CHOOSE row \in Table(h.endpoint) : row.id = h.authRequest.id

\* what the status endpoint reports for a well-formed key
StatusOf(publicKey) ==
    statusBody(findUnique(terminalAuthRequest, encodeHex(publicKey))).status

\* what a poll of the account-level flow would report for a well-formed key
AccountStateOf(publicKey) ==
    LET answer == findUnique(accountAuthRequest, encodeHex(publicKey))
    IN  IF answer = None THEN "not_found" ELSE pollBody(answer[1], None).state

WellFormedKeys == {publicKey \in PublicKeys : publicKey.length = publicKeyLength}

MalformedReply == reply.endpoint # "" /\ reply.publicKey.length # publicKeyLength

-----------------------------------------------------------------------------
(* C1: when several approval calls race on the same pending pairing request
   (each of them read the request with no response yet), exactly one write of
   (response, responseAccountId) takes effect: a racer that resumes after the
   pair has been set leaves the stored pair as it is, and still gets 200. *)
C1_FirstWriterWins ==
    [][\A h \in BagToSet(inflight) :
            (Completes(h) /\ h.authRequest.response = None)
                => /\ reply'.code = 200
                   /\ RowOf(h).response # None => RowOf(h) \in TableAfter(h.endpoint)]_vars

(* C2: once a pairing request has been approved (its response is set, whatever
   payload the endpoint accepted), an approval call that then reads it returns
   200 and leaves the stored response and responseAccountId as they are. *)
C2_LaterApprovalKeepsResponse ==
    [][\A h \in BagToSet(inflight) :
            (Completes(h) /\ h.authRequest.response # None /\ RowOf(h) = h.authRequest)
                => /\ reply'.code = 200
                   /\ TableAfter(h.endpoint) = Table(h.endpoint)]_vars

(* C3: a pairing request that is observed as authorized is never again observed
   as pending or not_found, in either flow. *)
C3_AuthorizedIsTerminal ==
    [][\A publicKey \in WellFormedKeys :
            /\ StatusOf(publicKey) = "authorized" => StatusOf(publicKey)' = "authorized"
            /\ AccountStateOf(publicKey) = "authorized"
                    => AccountStateOf(publicKey)' = "authorized"]_vars

(* C4: in every reachable state, every pairing record of either flow has its
   response set if and only if its responseAccountId is set. *)
C4_ResponseIffAccount ==
    \A row \in terminalAuthRequest \cup accountAuthRequest :
        (row.response = None) <=> (row.responseAccountId = None)

C4_Witness ==
    /\ \E row \in terminalAuthRequest :
            row.response # None /\ row.responseAccountId # None
    /\ \E row \in accountAuthRequest :
            row.response # None /\ row.responseAccountId # None

(* C5: when an approval (PK1, R, A) of a request that is still pending (no
   response stored) returns success, the status endpoint reports authorized and
   a poll for PK1 returns state authorized with response exactly R. *)
C5_ApprovedIsAuthorized ==
    [][\A h \in BagToSet(inflight) :
            (/\ Completes(h)
             /\ h.endpoint = "response"
             /\ h.authRequest.response = None
             /\ RowOf(h).response = None)
                => /\ reply'.code = 200
                   /\ StatusOf(h.publicKey)' = "authorized"
                   /\ LET answer ==
                            findUnique(terminalAuthRequest', encodeHex(h.publicKey))[1]
                      IN  /\ pollBody(answer, None).state = "authorized"
                          /\ pollBody(answer, None).response = Some(h.response)]_vars

(* C6: a pairing poll returns a token only when the stored record has both
   response and responseAccountId set, and that token is minted for the stored
   responseAccountId; while the record is pending (the response is null or
   empty, or there is no responseAccountId) the poll returns state 'requested'
   with no token. *)
C6_TokenOnlyWhenAuthorized ==
    (reply.endpoint \in {"request", "account/request"} /\ reply.code = 200)
        => LET answer == findUnique(Table(reply.endpoint), encodeHex(reply.publicKey))
           IN  /\ answer # None
               /\ reply.body.state \in {"requested", "authorized"}
               /\ reply.body.token # None
                    => /\ answer[1].response # None
                       /\ answer[1].responseAccountId # None
                       /\ reply.body.token[1].accountId = answer[1].responseAccountId[1]
                       /\ reply.body.state = "authorized"
                       /\ reply.body.response = answer[1].response
               /\ ~(Truthy(answer[1].response) /\ answer[1].responseAccountId # None)
                    => /\ reply.body.state = "requested"
                       /\ reply.body.token = None
               /\ reply.body.state = "authorized" => reply.body.token # None

C6_Witness ==
    /\ reply.endpoint = "request"
    /\ reply.code = 200
    /\ reply.body.state = "authorized"
    /\ \E row \in terminalAuthRequest :
            /\ row.publicKey = encodeHex(reply.publicKey)
            /\ reply.body.token = Some(createToken(row.responseAccountId[1], Some(row.id)))
            /\ reply.body.response = row.response

\* the last reply is a poll that returned state authorized
PollAuthorized ==
    /\ reply.endpoint \in {"request", "account/request"}
    /\ reply.code = 200
    /\ reply.body.state = "authorized"

\* the stored record of the request the last reply answers
Polled == CHOOSE row \in Table(reply.endpoint) : row.publicKey = encodeHex(reply.publicKey)

(* C25, as claimed: in both pairing instances the token of a poll that returns
   authorized is minted for the stored responseAccountId and is scoped to the
   identifier of the pairing request. *)
C25_PollTokenScopedToRequest ==
    PollAuthorized
        => reply.body.token = Some([accountId |-> Polled.responseAccountId[1],
                                    session |-> Some(Polled.id)])

(* C25, amended: the token of a poll that returns authorized is minted for the
   stored responseAccountId in both instances; the terminal-level poll scopes
   it to the identifier of the pairing request, the account-level poll gives
   it no scope. *)
C25_PollTokenForApprover ==
    PollAuthorized
        => reply.body.token =
              Some([accountId |-> Polled.responseAccountId[1],
                    session |-> IF reply.endpoint = "request" THEN Some(Polled.id) ELSE None])

\* an account-level poll that returned authorized with an unscoped token for
\* the account that approved
C25_Witness ==
    /\ PollAuthorized
    /\ reply.endpoint = "account/request"
    /\ Polled.responseAccountId # None
    /\ reply.body.token = Some([accountId |-> Polled.responseAccountId[1], session |-> None])

\* the table holds no pairing record for the public key
Absent(table, publicKey) == \A row \in table : row.publicKey # encodeHex(publicKey)

\* the step is the reply of an approval endpoint
ApprovalReplies ==
    /\ reply'.endpoint \in {"response", "account/response"}
    /\ reply' # reply

(* C28: an approval call for a well-formed public key that has no pairing
   record is answered 404 'Request not found' and leaves both tables as they
   are; a record that was absent and is there after a step was created by a
   poll, never by an approval. *)
C28_ApprovalOfAbsentIs404 ==
    [][/\ (/\ ApprovalReplies
           /\ reply'.publicKey.length = publicKeyLength
           /\ Absent(Table(reply'.endpoint), reply'.publicKey))
            => /\ reply'.code = 404
               /\ reply'.body.error = "Request not found"
               /\ terminalAuthRequest' = terminalAuthRequest
               /\ accountAuthRequest' = accountAuthRequest
       /\ \A publicKey \in PublicKeys :
            \A endpoint \in {"response", "account/response"} :
                (Absent(Table(endpoint), publicKey) /\ ~Absent(TableAfter(endpoint), publicKey))
                    => reply'.endpoint \in {"request", "account/request"}]_vars

\* an account-level approval answered 404 for a key that has a terminal-level
\* record and no account-level one
C28_Witness ==
    /\ reply.endpoint = "account/response"
    /\ reply.code = 404
    /\ reply.publicKey.length = publicKeyLength
    /\ Absent(accountAuthRequest, reply.publicKey)
    /\ ~Absent(terminalAuthRequest, reply.publicKey)

\* the two instances of the pairing state machine, by their endpoints
Flows == {[request |-> "request", response |-> "response"],
          [request |-> "account/request", response |-> "account/response"]}

\* the record states of a table: what each record holds, without the row id
\* and the columns one instance alone has
RecordStates(table) ==
    {[publicKey |-> row.publicKey, response |-> row.response,
      responseAccountId |-> row.responseAccountId] : row \in table}

\* a record that is pending
Pending(publicKey) ==
    [publicKey |-> encodeHex(publicKey), response |-> None, responseAccountId |-> None]

\* the record states after the approval (response, userId) is written on the
\* record of the key
Approved(records, publicKey, response, userId) ==
    {IF rec.publicKey = encodeHex(publicKey)
        THEN [rec EXCEPT !.response = Some(response), !.responseAccountId = Some(userId)]
        ELSE rec : rec \in records}

\* the step of one instance, as a step of the state machine both are said to
\* be: a poll, a suspended approval that resumes, an approval that suspends,
\* an approval that replies at once, or a step of another endpoint
PairingStep(flow) ==
    LET before == RecordStates(Table(flow.request))
        after == RecordStates(TableAfter(flow.request))
        key == reply'.publicKey
        wellFormed == key.length = publicKeyLength
        present == \E rec \in before : rec.publicKey = encodeHex(key)
        answered == \E rec \in after :
                        /\ rec.publicKey = encodeHex(key)
                        /\ Truthy(rec.response)
                        /\ rec.responseAccountId # None
    IN  IF \E h \in BagToSet(inflight) : h.endpoint = flow.response /\ Completes(h)
            THEN \E h \in BagToSet(inflight) :
                    /\ h.endpoint = flow.response
                    /\ Completes(h)
                    /\ after = Approved(before, h.publicKey, h.response, h.userId)
                    /\ reply'.endpoint = flow.response
                    /\ reply'.code = 200
                    /\ reply'.body.success
        ELSE IF inflight' # inflight
            THEN after = before
        ELSE IF reply'.endpoint = flow.request
            THEN IF ~wellFormed
                     THEN reply'.code = 401 /\ after = before
                     ELSE /\ reply'.code = 200
                          /\ after = before \cup (IF present THEN {} ELSE {Pending(key)})
                          /\ reply'.body.state = IF answered THEN "authorized" ELSE "requested"
                          /\ answered => \E rec \in after : /\ rec.publicKey = encodeHex(key)
                                                             /\ reply'.body.response = rec.response
        ELSE IF reply'.endpoint = flow.response
            THEN /\ after = before
                 /\ reply'.code = IF ~wellFormed THEN 401 ELSE IF ~present THEN 404 ELSE 200
                 /\ reply'.code = 200 => reply'.body.success
        ELSE after = before

(* C26: the account-level flow and the terminal-level flow implement the same
   state machine: every step of either instance is the step of one machine
   over the record states of its own table, so on the same sequence of request
   and approval calls the two go through the same record states and return the
   same reply states and status codes. *)
C26_BothFlowsOneMachine == [][\A flow \in Flows : PairingStep(flow)]_vars

\* both instances were taken through request, approval and poll for the same
\* key with the same approval: they hold the same record states, authorized,
\* and the account-level poll returned authorized
C26_Witness ==
    /\ RecordStates(terminalAuthRequest) = RecordStates(accountAuthRequest)
    /\ \E rec \in RecordStates(accountAuthRequest) :
            Truthy(rec.response) /\ rec.responseAccountId # None
    /\ inflight = EmptyBag
    /\ reply.endpoint = "account/request"
    /\ reply.code = 200
    /\ reply.body.state = "authorized"

\* the endpoints a step belongs to: that of the approval handler it suspends
\* or resumes, and else that of the reply it sends
EndpointsOfStep ==
    IF inflight' # inflight
        THEN {h.endpoint : h \in {g \in BagToSet(inflight) \cup BagToSet(inflight') :
                                    CopiesIn(g, inflight) # CopiesIn(g, inflight')}}
        ELSE {reply'.endpoint}

\* what a poll of the terminal-level flow would report for a well-formed key
TerminalStateOf(publicKey) ==
    LET answer == findUnique(terminalAuthRequest, encodeHex(publicKey))
    IN  IF answer = None THEN "not_found" ELSE pollBody(answer[1], Some(answer[1].id)).state

(* C35: the two pairing namespaces are isolated: a step of a terminal-level
   endpoint (request, status, approval) leaves every account-level pairing
   record as it is, and a step of an account-level endpoint leaves every
   terminal-level record as it is; so what a poll of the other flow would
   return for a key, authorized or not, is the same before and after. *)
C35_NamespacesIsolated ==
    [][\A endpoint \in EndpointsOfStep :
          /\ endpoint \in {"request", "status", "response"}
                => /\ accountAuthRequest' = accountAuthRequest
                   /\ \A publicKey \in WellFormedKeys :
                          AccountStateOf(publicKey)' = AccountStateOf(publicKey)
          /\ endpoint \in {"account/request", "account/response"}
                => /\ terminalAuthRequest' = terminalAuthRequest
                   /\ \A publicKey \in WellFormedKeys :
                          TerminalStateOf(publicKey)' = TerminalStateOf(publicKey)]_vars

\* a key approved in the account-level flow and requested in the
\* terminal-level flow: the terminal-level poll for it returned 'requested'
C35_Witness ==
    /\ reply.endpoint = "request"
    /\ reply.code = 200
    /\ reply.body.state = "requested"
    /\ AccountStateOf(reply.publicKey) = "authorized"
    /\ TerminalStateOf(reply.publicKey) = "requested"

\* the last reply is the success of an approval call for the key
ApprovalSucceeded(publicKey) ==
    /\ reply.endpoint = "response"
    /\ reply.publicKey = publicKey
    /\ reply.code = 200
    /\ reply.body.success

\* the last reply is a poll of the key's requester that returned state
\* authorized, a token and the response
PollReturnedAuthorized(publicKey) ==
    /\ reply.endpoint = "request"
    /\ reply.publicKey = publicKey
    /\ reply.code = 200
    /\ reply.body.state = "authorized"
    /\ reply.body.token # None
    /\ reply.body.response # None

(* C37: liveness of pairing: when a requester has registered a pairing request
   and keeps polling, and an approval call for that public key returns success,
   the requester eventually receives a poll reply with state authorized, a
   token and the response, under fair scheduling of the handlers *)
C37_ApprovalLeadsToAuthorizedPoll ==
    \A publicKey \in WellFormedKeys :
        ApprovalSucceeded(publicKey) ~> PollReturnedAuthorized(publicKey)

\* the stored response of the key is not empty, and no suspended approval
\* handler for the key is about to write an empty one
ApprovalLasts(publicKey) ==
    /\ \E row \in terminalAuthRequest :
            row.publicKey = encodeHex(publicKey) /\ isAnswered(row)
    /\ \A h \in BagToSet(inflight) :
            h.endpoint = "response" /\ h.publicKey = publicKey => Len(h.response) > 0

\* what does hold: an approval that returned success and left a response that
\* is not empty, with no approval of an empty response under way, leads to
\* the authorized poll
LastingApprovalLeadsToAuthorizedPoll ==
    \A publicKey \in WellFormedKeys :
        (ApprovalSucceeded(publicKey) /\ ApprovalLasts(publicKey))
            ~> PollReturnedAuthorized(publicKey)

(* C38: all tokens ever returned by polls for one pairing request are minted
   for the same account and come with the same response payload, under every
   interleaving of polls with approval calls from different accounts *)
C38_PollsReturnOneApproval ==
    \A first \in received, second \in received :
        first.endpoint = second.endpoint /\ first.publicKey = second.publicKey
            => /\ first.token.accountId = second.token.accountId
               /\ first.response = second.response

\* what does hold: every poll of a request returns a token of the one
\* session, the request's (none at the account level)
PollsReturnOneSession ==
    \A first \in received, second \in received :
        first.endpoint = second.endpoint /\ first.publicKey = second.publicKey
            => first.token.session = second.token.session

(* C40: after a pairing request is authorized, a session token for the
   approver's account is obtained only by a party that holds the private key
   matching the request's public key; a party that knows only the public key
   cannot obtain a token by polling *)
C40_TokenOnlyToKeyHolder ==
    \A poll \in received : poll.holdsPrivateKey

\* what does hold: a token is received only for a public key that has a
\* stored request in the table of the endpoint polled, and a token of the
\* terminal level carries that request's id as its session
TokenOnlyForStoredRequest ==
    \A poll \in received :
        \E row \in Table(poll.endpoint) :
            /\ row.publicKey = encodeHex(poll.publicKey)
            /\ poll.endpoint = "request" => poll.token.session = Some(row.id)

(* C7, as claimed: on every pairing endpoint a public key of the wrong length
   is answered with a 401 error. *)
C7_EveryEndpoint401 == MalformedReply => reply.code = 401

(* C7, amended: a public key of the wrong length is answered with 401 'Invalid
   public key' on the request, response, account request and account response
   endpoints, and with 200 and status not_found on the status endpoint. *)
C7_MalformedKeyRejected ==
    MalformedReply =>
        IF reply.endpoint = "status"
            THEN reply.code = 200 /\ reply.body.status = "not_found"
            ELSE reply.code = 401 /\ reply.body.error = "Invalid public key"

C7_Witness ==
    /\ MalformedReply
    /\ reply.endpoint = "account/response"
    /\ reply.code = 401
    /\ accountAuthRequest # {}

(* C8: a call with a public key of the wrong length, on any pairing endpoint,
   makes no store call and leaves the terminal and account pairing records as
   they are: no record is created. *)
C8_MalformedKeyTouchesNothing ==
    [][(reply'.endpoint # "" /\ reply'.publicKey.length # publicKeyLength)
            => /\ reply'.dbCalls = 0
               /\ terminalAuthRequest' = terminalAuthRequest
               /\ accountAuthRequest' = accountAuthRequest]_vars

C8_Witness ==
    /\ MalformedReply
    /\ reply.endpoint = "request"
    /\ reply.publicKey.length = publicKeyLength + 1
    /\ terminalAuthRequest = {}

\* at most one row per public key, and per id
UniqueKeys(table) ==
    \A row1, row2 \in table :
        (row1.publicKey = row2.publicKey \/ row1.id = row2.id) => row1 = row2

(* C9: each namespace holds at most one pairing record per public key; the
   first poll for a key creates one pending record, and a later poll for the
   key leaves every record of the table as it is. *)
C9_OneRecordPerKey ==
    [][/\ UniqueKeys(terminalAuthRequest')
       /\ UniqueKeys(accountAuthRequest')
       /\ (reply'.endpoint \in {"request", "account/request"} /\ reply'.code = 200)
            => LET publicKeyHex == encodeHex(reply'.publicKey)
                   table == Table(reply'.endpoint)
               IN  IF findUnique(table, publicKeyHex) # None
                       THEN TableAfter(reply'.endpoint) = table
                       ELSE \E row \in TableAfter(reply'.endpoint) :
                                /\ TableAfter(reply'.endpoint) = table \cup {row}
                                /\ row.publicKey = publicKeyHex
                                /\ row.response = None
                                /\ row.responseAccountId = None
                                /\ reply'.body.state = "requested"]_vars

C9_Witness ==
    /\ reply.endpoint = "request"
    /\ reply.code = 200
    /\ reply.body.state = "requested"
    /\ reply.supportsV2 = Some(TRUE)
    /\ \E row \in terminalAuthRequest :
            /\ row.publicKey = encodeHex(reply.publicKey)
            /\ row.supportsV2 = FALSE
            /\ row.response = None

(* C10: POST /v1/auth upserts an account and mints a token only when the
   signature verifies over exactly the supplied challenge with the supplied
   public key; when verification fails the reply is 401, and whenever the reply
   is not 200 no account is created or updated and no token is minted. *)
C10_TokenOnlyForValidSignature ==
    [][authReply'.code # 0 =>
        LET r == authReply'
            wellSized == /\ r.signature.length = signatureLength
                         /\ r.publicKey.length = signPublicKeyLength
            verifies == /\ wellSized
                        /\ r.signature.by = r.publicKey
                        /\ r.signature.over = r.challenge
        IN  /\ r.code = 200 <=> verifies
            /\ r.code = 200
                => /\ r.token # None
                   /\ \E row \in account' :
                        /\ row.publicKey = encodeHex(r.publicKey)
                        /\ r.token[1].accountId = row.id
                        /\ row \notin account
            /\ r.code # 200 => (account' = account /\ r.token = None)
            /\ (wellSized /\ ~verifies) => r.code = 401]_vars

C10_Witness ==
    /\ authReply.code = 401
    /\ authReply.signature.by = authReply.publicKey
    /\ authReply.signature.over # authReply.challenge
    /\ \E row \in account : row.publicKey = encodeHex(authReply.publicKey)


\* at most one account per identifier, and per id
UniqueAccounts(table) ==
    \A row1 \in table, row2 \in table :
        (row1.publicKey = row2.publicKey \/ row1.id = row2.id) => row1 = row2

\* the account identifier of a directory user name under the master secret
IdentifierOf(username) ==
    digest(sha256(publicKeyHashInput(masterSecret, lastSegment(username))), "hex")

\* the step created the row by a signature login that verified
CreatedBySignature(row) ==
    /\ authReply'.code = 200
    /\ authReply'.signature.by = authReply'.publicKey
    /\ authReply'.signature.over = authReply'.challenge
    /\ row.publicKey = encodeHex(authReply'.publicKey)
    /\ authReply'.token = Some([accountId |-> row.id, session |-> None])

\* the step created the row by a directory login the directory accepted
CreatedByDirectory(row) ==
    \E h \in BagToSet(adInflight') :
        /\ adInflight' = adInflight (+) SetToBag({h})
        /\ h.success
        /\ h.userId = row.id
        /\ row.publicKey = IdentifierOf(h.username)

(* C27: there is at most one account per public-key-derived identifier; a
   step that adds an account is a signature login that verified or a
   directory login that the directory accepted; a successful login returns a
   token of the account that holds its identifier, the same at every later
   login; and no step removes an account or changes its identifier. *)
C27_OneAccountPerIdentifier ==
    [][/\ UniqueAccounts(account')
       /\ \A row \in account :
            \E kept \in account' : kept.id = row.id /\ kept.publicKey = row.publicKey
       /\ \A row \in account' :
            (\A old \in account : old.id # row.id)
                => CreatedBySignature(row) \/ CreatedByDirectory(row)
       /\ (authReply' # authReply /\ authReply'.code = 200)
            => \E row \in account' :
                    /\ row.publicKey = encodeHex(authReply'.publicKey)
                    /\ authReply'.token[1].accountId = row.id
       /\ (adReply' # adReply /\ adReply'.code = 200)
            => \E row \in account :
                    /\ row.publicKey = IdentifierOf(adReply'.request.username)
                    /\ adReply'.body.token[1].accountId = row.id]_vars

\* an account made by a signature login and one made by a directory login,
\* the second found again by a later login under the same name with a prefix
C27_Witness ==
    /\ Cardinality(account) >= 2
    /\ \E row \in account : row.publicKey = encodeHex(Bytes(signPublicKeyLength, 1))
    /\ adReply.code = 200
    /\ adReply.request.username = <<"a", "\\", "a">>
    /\ \E row \in account :
            /\ row.publicKey = IdentifierOf(<<"a">>)
            /\ row.updatedAt >= 1
            /\ adReply.body.token[1].accountId = row.id

-----------------------------------------------------------------------------
(* The credential vault *)

\* a string with no unpaired surrogate
RECURSIVE WellFormed(_)
WellFormed(string) ==
    IF string = <<>> THEN TRUE
    ELSE IF isLeadSurrogate(Head(string))
        THEN /\ Len(string) >= 2
             /\ isTrailSurrogate(string[2])
             /\ WellFormed(Tail(Tail(string)))
    ELSE /\ ~isSurrogate(Head(string))
         /\ WellFormed(Tail(string))

\* a string with each unpaired surrogate replaced by U+FFFD
RECURSIVE Scrubbed(_)
Scrubbed(string) ==
    IF string = <<>> THEN <<>>
    ELSE IF isLeadSurrogate(Head(string)) /\ Len(string) >= 2 /\ isTrailSurrogate(string[2])
        THEN <<string[1], string[2]>> \o Scrubbed(Tail(Tail(string)))
    ELSE IF isSurrogate(Head(string))
        THEN <<65533>> \o Scrubbed(Tail(string))
    ELSE <<Head(string)>> \o Scrubbed(Tail(string))

\* the blob at rest is as it was sealed, and was unsealed under the key that sealed it
RoundTrip ==
    /\ vault.unsealed # None
    /\ vault.flipped = 0
    /\ vault.unsealed[1].username = vault.sealed[1].username

\* the blob at rest is a nonce of 12 bytes, a tag of 16 bytes and one byte of
\* ciphertext per byte of the password in UTF-8
SealedLayout ==
    LET data == vault.data[1]
        sealed == vault.sealed[1]
    IN  /\ Len(data) = 3
        /\ data[1].of = [random |-> sealed.outcome]
        /\ <<data[1].from, data[1].to>> = <<1, 12>>
        /\ DOMAIN data[2].of = {"key", "iv", "mac"}
        /\ <<data[2].from, data[2].to>> = <<1, 16>>
        /\ DOMAIN data[3].of = {"key", "iv", "plain"}
        /\ <<data[3].from, data[3].to>> = <<1, Len(utf8Write(sealed.password))>>
        /\ byteLength(data) = 12 + 16 + Len(utf8Write(sealed.password))

\* C15 as stated: unsealing a sealed blob under the same key returns the
\* original plaintext, whatever the plaintext
C15_RoundTripOfEveryString ==
    RoundTrip => /\ ~vault.unsealed[1].decrypted.threw
                 /\ vault.unsealed[1].decrypted.password = vault.sealed[1].password

\* C15: unsealing a sealed blob under the same key never throws and returns
\* the original plaintext when the plaintext has no unpaired surrogate, and
\* the plaintext with each unpaired surrogate replaced by U+FFFD otherwise;
\* the blob is the 12-byte nonce, the 16-byte tag and the ciphertext
C15_RoundTripOfText ==
    /\ vault.data # None /\ vault.flipped = 0 => SealedLayout
    /\ RoundTrip => /\ ~vault.unsealed[1].decrypted.threw
                    /\ vault.unsealed[1].decrypted.password
                            = Scrubbed(vault.sealed[1].password)
                    /\ WellFormed(vault.sealed[1].password)
                          => vault.unsealed[1].decrypted.password = vault.sealed[1].password

C15_Witness ==
    /\ RoundTrip
    /\ vault.sealed[1].password = <<233, 120>>
    /\ vault.unsealed[1].decrypted.password = <<233, 120>>

\* the blob at rest was altered in one position, or was unsealed under the
\* key of another user name
Tampered ==
    /\ vault.unsealed # None
    /\ \/ vault.flipped # 0
       \/ vault.unsealed[1].username # vault.sealed[1].username

\* C16: unsealing a blob that differs from the sealed one in any position,
\* or under a different key, throws and returns no plaintext; the retrieval
\* endpoint answers 500 with no password in the reply
C16_TamperedNeverUnseals ==
    Tampered => /\ vault.unsealed[1].decrypted.threw
                /\ vault.unsealed[1].decrypted.password = <<>>
                /\ vault.unsealed[1].reply.code = 500
                /\ vault.unsealed[1].reply.password = None

C16_Witness ==
    /\ vault.unsealed # None
    /\ vault.flipped > 28
    /\ vault.unsealed[1].username = vault.sealed[1].username
    /\ vault.unsealed[1].reply.code = 500

\* the nonce of a sealed blob: its first twelve bytes
NonceOf(data) == subarray(data, 0, ivLength)

(* C29, as claimed: across any sequence of seal calls made with the same key,
   no two calls use the same nonce. *)
C29_NoNonceTwiceUnderAKey ==
    \A i \in 1..Len(sealCalls), j \in 1..Len(sealCalls) :
        (i # j /\ sealCalls[i].key = sealCalls[j].key)
            => NonceOf(sealCalls[i].data) # NonceOf(sealCalls[j].data)

(* C29, amended: the nonce of every seal call is twelve bytes drawn by the
   random generator in that call, whatever the key and the password; two calls
   use the same nonce exactly when the generator drew the same bytes twice,
   which nothing in the code excludes. *)
C29_NonceIsTheDrawOfTheCall ==
    \A i \in 1..Len(sealCalls), j \in 1..Len(sealCalls) :
        /\ byteLength(NonceOf(sealCalls[i].data)) = ivLength
        /\ NonceOf(sealCalls[i].data) = NonceOf(sealCalls[j].data)
                <=> sealCalls[i].outcome = sealCalls[j].outcome

\* two seal calls under one key with different passwords, for which the
\* generator drew different bytes: the nonces differ
C29_Witness ==
    /\ Len(sealCalls) = 2
    /\ sealCalls[1].key = sealCalls[2].key
    /\ sealCalls[1].password # sealCalls[2].password
    /\ sealCalls[1].outcome # sealCalls[2].outcome
    /\ NonceOf(sealCalls[1].data) # NonceOf(sealCalls[2].data)

-----------------------------------------------------------------------------
(* SHA-512 and HMAC as the standards define them (FIPS 180-4, RFC 2104): a
   64-bit word is <<x3, x2, x1, x0>>, four 16-bit limbs, most significant first *)

Limbs == (0..(limb - 1)) \X (0..(limb - 1)) \X (0..(limb - 1)) \X (0..(limb - 1))

\* x + y modulo 2^64
Add ==
    [x \in Limbs, y \in Limbs |->
        LET s0 == x[4] + y[4]
            s1 == x[3] + y[3] + s0 \div limb
            s2 == x[2] + y[2] + s1 \div limb
            s3 == x[1] + y[1] + s2 \div limb
        IN  <<s3 % limb, s2 % limb, s1 % limb, s0 % limb>>]

\* x shifted right by n bits, the bits shifted in from above taken from
\* `above` (x itself for a rotation, zero for a shift)
Shifted(x, above, n) ==
    LET q == n \div 16
        r == n % 16
        src(j) == IF j < 4 THEN x[4 - j] ELSE above[8 - j]
        limbOf(j) == src(j + q) \div 2^r + (src(j + q + 1) % 2^r) * 2^(16 - r)
    IN  <<limbOf(3), limbOf(2), limbOf(1), limbOf(0)>>

ROTR(x, n) == Shifted(x, x, n)
SHR(x, n) == Shifted(x, <<0, 0, 0, 0>>, n)

XOR ==
    [x \in Limbs, y \in Limbs |->
        <<Limbwise(Nibbles["^"], x[1], y[1]), Limbwise(Nibbles["^"], x[2], y[2]),
          Limbwise(Nibbles["^"], x[3], y[3]), Limbwise(Nibbles["^"], x[4], y[4])>>]
AND ==
    [x \in Limbs, y \in Limbs |->
        <<Limbwise(Nibbles["&"], x[1], y[1]), Limbwise(Nibbles["&"], x[2], y[2]),
          Limbwise(Nibbles["&"], x[3], y[3]), Limbwise(Nibbles["&"], x[4], y[4])>>]
NOT(x) == <<limb - 1 - x[1], limb - 1 - x[2], limb - 1 - x[3], limb - 1 - x[4]>>

Ch(x, y, z) == XOR[AND[x, y], AND[NOT(x), z]]
Maj(x, y, z) == XOR[XOR[AND[x, y], AND[x, z]], AND[y, z]]
BigSigma0(x) == XOR[XOR[ROTR(x, 28), ROTR(x, 34)], ROTR(x, 39)]
BigSigma1(x) == XOR[XOR[ROTR(x, 14), ROTR(x, 18)], ROTR(x, 41)]
SmallSigma0(x) == XOR[XOR[ROTR(x, 1), ROTR(x, 8)], SHR(x, 7)]
SmallSigma1(x) == XOR[XOR[ROTR(x, 19), ROTR(x, 61)], SHR(x, 6)]

\* the word of two 32-bit halves
Joined(halves) == halves[1] \o halves[2]

\* the message, the bit 1, zero bits up to 896 modulo 1024, and the length
\* in bits as a 128-bit integer
Padded(message) ==
    LET k == (128 + 112 - ((Len(message) + 1) % 128)) % 128
        bits == Len(message) * 8
    IN  message \o <<128>> \o [i \in 1..(k + 12) |-> 0]
            \o <<bits \div 16777216, (bits \div 65536) % 256, (bits \div 256) % 256, bits % 256>>

\* word t (from 1) of block number n (from 0) of the padded message
WordOf(bytes, n, t) ==
    <<bytes[128 * n + 8 * t - 7] * 256 + bytes[128 * n + 8 * t - 6],
      bytes[128 * n + 8 * t - 5] * 256 + bytes[128 * n + 8 * t - 4],
      bytes[128 * n + 8 * t - 3] * 256 + bytes[128 * n + 8 * t - 2],
      bytes[128 * n + 8 * t - 1] * 256 + bytes[128 * n + 8 * t]>>

\* the message schedule up to W_(n - 1), W holding the words so far
RECURSIVE Schedule(_, _)
Schedule(W, n) ==
    IF Len(W) >= n THEN W
    ELSE IF Len(W) = n - 1
        THEN Append(W, Add[Add[SmallSigma1(W[n - 2]), W[n - 7]],
                           Add[SmallSigma0(W[n - 15]), W[n - 16]]])
    ELSE Schedule(Schedule(W, (Len(W) + n + 1) \div 2), n)

\* T1 of a round: h + Sigma1(e) + Ch(e, f, g) + K_t + W_t
T1(v, Kt, Wt) == Add[Add[Add[v[8], BigSigma1(v[5])], Add[Ch(v[5], v[6], v[7]), Kt]], Wt]

\* T2 of a round: Sigma0(a) + Maj(a, b, c)
T2(v) == Add[BigSigma0(v[1]), Maj(v[1], v[2], v[3])]

\* a = T1 + T2, e = d + T1, the other working variables moved on by one
Moved(v, t1, t2) == <<Add[t1, t2], v[1], v[2], v[3], Add[v[4], t1], v[5], v[6], v[7]>>

\* round t (from 0) on the working variables a .. h
Compress(v, W, t) == Moved(v, T1(v, Joined(SubSeq(K, 2 * t + 1, 2 * t + 2)), W[t + 1]), T2(v))

\* the working variables before each of the first n rounds
RECURSIVE Rounds(_, _, _)
Rounds(vs, W, n) ==
    IF Len(vs) >= n THEN vs
    ELSE IF Len(vs) = n - 1 THEN Append(vs, Compress(vs[n - 1], W, n - 2))
    ELSE Rounds(Rounds(vs, W, (Len(vs) + n + 1) \div 2), W, n)

\* the working variables added to the hash value, word by word
Added(H, v) ==
    <<Add[H[1], v[1]], Add[H[2], v[2]], Add[H[3], v[3]], Add[H[4], v[4]],
      Add[H[5], v[5]], Add[H[6], v[6]], Add[H[7], v[7]], Add[H[8], v[8]]>>

\* the hash value after one block of schedule W
Compressed(H, W) == Added(H, Rounds(<<H>>, W, Len(W) + 1)[Len(W) + 1])

\* the hash value after the blocks from number n on
RECURSIVE Blocks(_, _, _)
Blocks(H, bytes, n) ==
    IF 128 * n >= Len(bytes) THEN H
    ELSE Blocks(Compressed(H, Schedule([t \in 1..16 |-> WordOf(bytes, n, t)], 80)), bytes, n + 1)

\* the bytes of the eight words of a hash value
Digest(H) ==
    [k \in 1..64 |->
        LET x == H[((k - 1) \div 8) + 1][(((k - 1) \div 2) % 4) + 1]
        IN  IF k % 2 = 1 THEN x \div 256 ELSE x % 256]

\* the digest of FIPS 180-4, as 64 bytes
SHA512(message) == Digest(Blocks([j \in 1..8 |-> Joined(initialHash[j])], Padded(message), 0))

\* the key of RFC 2104, zero-padded to the block and xored with a pad byte
Pad(K0, byte) ==
    [i \in 1..128 |-> Limbwise(Nibbles["^"], IF i <= Len(K0) THEN K0[i] ELSE 0, byte)]

\* H((K0 xor opad) || H((K0 xor ipad) || text)), ipad 0x36 and opad 0x5c
Nested(K0, text) == SHA512(Pad(K0, 92) \o SHA512(Pad(K0, 54) \o text))

\* HMAC of RFC 2104 over SHA-512: the key hashed when longer than a block
HMAC(key, text) == Nested(IF Len(key) > 128 THEN SHA512(key) ELSE key, text)

\* the standard's own examples: the digests of the empty message and of
\* "abc" begin cf83e135 7eefb8bd and ddaf35a1 93617aba
StandardExamples ==
    /\ SubSeq(SHA512(<<>>), 1, 8) = <<207, 131, 225, 53, 126, 239, 184, 189>>
    /\ SubSeq(SHA512(<<97, 98, 99>>), 1, 8) = <<221, 175, 53, 161, 147, 97, 122, 186>>

-----------------------------------------------------------------------------
(* The client's hash *)

\* the last call, of the given function
Called(fn) == hashCall # None /\ hashCall[1].fn = fn

\* the 64-bit word of a high and a low half, each taken as its 32 bits
HalvesJoined(h, l) == ToUint32(h) \o ToUint32(l)

\* C30: add64(ah, al, bh, bl) returns the high and the low half of the sum
\* modulo 2^64 of its operands, for every half word its callers pass,
\* the negative int32 values of the message schedule included
C30_Add64IsTheSum ==
    Called("add64") =>
        LET args == hashCall[1].args
            sum == Add[HalvesJoined(args[1], args[2]), HalvesJoined(args[3], args[4])]
        IN  hashCall[1].result = <<<<sum[1], sum[2]>>, <<sum[3], sum[4]>>>>

\* the same for a first operand whose low half is not negative: there the
\* comparison lo < al sees the carry
Add64OfUnsignedLow ==
    (Called("add64") /\ hashCall[1].args[2][1] >= 0) =>
        LET args == hashCall[1].args
            sum == Add[HalvesJoined(args[1], args[2]), HalvesJoined(args[3], args[4])]
        IN  hashCall[1].result = <<<<sum[1], sum[2]>>, <<sum[3], sum[4]>>>>

\* C23: sha512 returns the digest of standard SHA-512 and hmac_sha512 that
\* of standard HMAC-SHA512, for the empty input and the inputs of 111, 112,
\* 127 and 128 bytes as for the others
C23_DigestsAreTheStandards ==
    /\ Called("sha512") => hashCall[1].result = SHA512(hashCall[1].args[1])
    /\ Called("hmac_sha512")
            => hashCall[1].result = HMAC(hashCall[1].args[1], hashCall[1].args[2])

\* the key as the HMAC uses it, K' being the key or its hash: zero-padded to
\* the block size, every byte xored with the pad
Keyed(hashedKey, pad) ==
    [i \in 1..blockSize |->
        Limbwise(Nibbles["^"], IF i <= Len(hashedKey) THEN hashedKey[i] ELSE 0, pad)]

\* H((K' xor opad) || H((K' xor ipad) || data)), H being the hash of the file
Construction(hashedKey, data) ==
    sha512(Keyed(hashedKey, 92) \o sha512(Keyed(hashedKey, 54) \o data))

\* C24: with the hash H of the file taken as given, hmac_sha512(key, data) is
\* H((K' xor opad) || H((K' xor ipad) || data)), K' being H(key) zero-padded
\* to 128 bytes when the key is longer than 128 bytes and the key zero-padded
\* otherwise, ipad 0x36 and opad 0x5c in every byte
C24_HmacIsTheConstruction ==
    Called("hmac_sha512") =>
        hashCall[1].result =
            Construction(IF Len(hashCall[1].args[1]) > blockSize
                             THEN sha512(hashCall[1].args[1])
                             ELSE hashCall[1].args[1],
                         hashCall[1].args[2])

\* a call with a key of exactly 128 bytes, used as it is
C24_Witness ==
    /\ Called("hmac_sha512")
    /\ Len(hashCall[1].args[1]) = blockSize
    /\ LET key == hashCall[1].args[1]
           data == hashCall[1].args[2]
           inner == [i \in 1..blockSize |-> Limbwise(Nibbles["^"], key[i], 54)]
           outer == [i \in 1..blockSize |-> Limbwise(Nibbles["^"], key[i], 92)]
       IN  hashCall[1].result = sha512(outer \o sha512(inner \o data))

\* C31: for an input of n bytes the padded message is the input followed by
\* the byte 0x80, zero bytes, and 8 * n in the last eight bytes, most
\* significant byte first, and its length is the smallest multiple of 128
\* that is at least n + 17
C31_PaddingIsTheStandards ==
    Called("padded") =>
        LET n == Len(hashCall[1].args[1])
            bytes == hashCall[1].result
            total == Len(bytes)
        IN  /\ total % 128 = 0
            /\ total >= n + 17
            /\ total - 128 < n + 17
            /\ SubSeq(bytes, 1, n) = hashCall[1].args[1]
            /\ bytes[n + 1] = 128
            /\ \A i \in (n + 2)..(total - 8) : bytes[i] = 0
            /\ \A i \in (total - 7)..(total - 3) : bytes[i] = 0
            /\ bytes[total - 2] * 65536 + bytes[total - 1] * 256 + bytes[total] = 8 * n

\* an input of 112 bytes is padded to two blocks
C31_Witness ==
    /\ Called("padded")
    /\ Len(hashCall[1].args[1]) = 112
    /\ Len(hashCall[1].result) = 256
    /\ hashCall[1].result[113] = 128
    /\ SubSeq(hashCall[1].result, 254, 256) = <<0, 3, 128>>

\* an input of 111 bytes is padded to one block
PaddingOf111IsOneBlock ==
    (Called("padded") /\ Len(hashCall[1].args[1]) = 111) => Len(hashCall[1].result) = 128

-----------------------------------------------------------------------------
(* The LDAP module *)

\* the call's servers in configured order, and what each did
ServersOf(call) == call.config.servers

\* the first server of the call that accepts the bind, 0 when none does
FirstAccepting(call) ==
    LET accepting == {i \in 1..Len(ServersOf(call)) : call.env[ServersOf(call)[i]].bind = "ok"}
    IN  IF accepting = {} THEN 0 ELSE CHOOSE i \in accepting : \A j \in accepting : i <= j

\* C19: when some endpoint accepts the bind and every endpoint before it
\* fails, authenticate returns success
C19_FailoverReachesAcceptingEndpoint ==
    ldapCall # None /\ FirstAccepting(ldapCall[1]) # 0 => ldapCall[1].result.success

\* the same where the unbind that follows the accepted bind does not throw
FailoverWithCleanRelease ==
    ldapCall # None /\ FirstAccepting(ldapCall[1]) # 0
        /\ ldapCall[1].env[ServersOf(ldapCall[1])[FirstAccepting(ldapCall[1])]].unbind[1] = "ok"
    => ldapCall[1].result.success

\* C20: whenever a bind succeeded on an endpoint, authenticate returns
\* success, even if the unbind of that connection failed
C20_BindSuccessIsSuccess ==
    ldapCall # None =>
        LET did == ldapCall[1].result.did
        IN  (\E i \in 1..Len(did) : did[i].op = "bind" /\ did[i].outcome = "ok")
                => ldapCall[1].result.success

\* the connections the call opened, as places of its log
Opened(call) == {i \in 1..Len(call.result.did) : call.result.did[i].op = "new Client"}

\* a release was attempted on the connection opened at place i of the log,
\* after it was opened
ReleaseAttempted(call, i) ==
    \E j \in (i + 1)..Len(call.result.did) :
        /\ call.result.did[j].op = "unbind"
        /\ call.result.did[j].server = call.result.did[i].server

\* C21: on every exit path of authenticate (success, bind failure,
\* connection failure, all endpoints exhausted) an unbind has been attempted
\* on every connection the call opened, before the call returns
C21_EveryConnectionReleased ==
    ldapCall # None => \A i \in Opened(ldapCall[1]) : ReleaseAttempted(ldapCall[1], i)

\* a call that opened two connections, one refused and one that rejected
\* the password, and returned the failure
C21_Witness ==
    /\ ldapCall # None
    /\ ~ldapCall[1].result.success
    /\ Cardinality(Opened(ldapCall[1])) = 2
    /\ ldapCall[1].env[1].bind = "connect ECONNREFUSED"
    /\ ldapCall[1].env[2].bind = "Invalid credentials during a bind operation"
    /\ \A i \in Opened(ldapCall[1]) : ReleaseAttempted(ldapCall[1], i)

\* no server of the call accepted the bind
NoBindSucceeded(call) ==
    \A i \in 1..Len(ServersOf(call)) : call.env[ServersOf(call)[i]].bind # "ok"

\* what authenticate returned to its caller
Returned(call) == [success |-> call.result.success, error |-> call.result.error]

\* C22: when no endpoint accepts the bind, what authenticate returns is the
\* failure 'Invalid credentials' whatever made the endpoints fail: the
\* result does not depend on the stage that failed
C22_FailureDoesNotTellTheStage ==
    ldapCall # None /\ NoBindSucceeded(ldapCall[1])
        => Returned(ldapCall[1]) = [success |-> FALSE, error |-> "Invalid credentials"]

\* a failed call where one endpoint timed out and the other rejected the
\* password
C22_Witness ==
    /\ ldapCall # None
    /\ Len(ServersOf(ldapCall[1])) = 2
    /\ ldapCall[1].env[1].bind = "Invalid credentials during a bind operation"
    /\ ldapCall[1].env[2].bind = "Connection timeout"
    /\ Returned(ldapCall[1]) = [success |-> FALSE, error |-> "Invalid credentials"]

\* the servers the call contacted, in the order of its log
Contacted(call) ==
    LET did == call.result.did
    IN  [k \in 1..Cardinality(Opened(call)) |->
            did[CHOOSE i \in Opened(call) :
                    Cardinality({j \in Opened(call) : j <= i}) = k].server]

\* the call works on one endpoint at a time, in configured order: the
\* servers contacted are the first ones of the configuration in their order,
\* each once, and all that is done on a server comes before the next server
\* is contacted
OneAtATimeInOrder(call) ==
    LET did == call.result.did
    IN  /\ Len(Contacted(call)) <= Len(ServersOf(call))
        /\ Contacted(call) = SubSeq(ServersOf(call), 1, Len(Contacted(call)))
        /\ \A i \in 1..Len(did), j \in 1..Len(did) :
                (i < j /\ did[j].op = "new Client") => did[i].server # did[j].server
        /\ \A i \in 1..Len(did) : did[i].op = "bind" =>
                /\ i > 1
                /\ did[i - 1] = Did("new Client", did[i].server, "ok")

\* no endpoint is contacted after a bind that succeeded
NothingAfterSuccessfulBind(call) ==
    LET did == call.result.did
    IN  \A i \in 1..Len(did), j \in 1..Len(did) :
            (did[i].op = "bind" /\ did[i].outcome = "ok" /\ i < j)
                => did[j].op # "new Client"

\* C32: authenticate contacts the endpoints one at a time in configured
\* order, starts on an endpoint only when the attempt on the one before has
\* finished, and contacts no further endpoint after the first bind that
\* succeeded
C32_SequentialUntilFirstBind ==
    ldapCall # None =>
        /\ OneAtATimeInOrder(ldapCall[1])
        /\ NothingAfterSuccessfulBind(ldapCall[1])

\* the order alone: it holds on every call
EndpointsOneAtATimeInOrder == ldapCall # None => OneAtATimeInOrder(ldapCall[1])

\* the same as C32 for the calls where no unbind that follows an accepted
\* bind throws
SequentialWithCleanRelease ==
    (ldapCall # None
        /\ \A i \in 1..Len(ServersOf(ldapCall[1])) :
               LET client == ldapCall[1].env[ServersOf(ldapCall[1])[i]]
               IN  client.bind = "ok" => client.unbind[1] = "ok")
    => NothingAfterSuccessfulBind(ldapCall[1])

\* the places of the call's log where it binds to a server
Binds(call) == {i \in 1..Len(call.result.did) : call.result.did[i].op = "bind"}

\* C33: a bind that fails on an endpoint, whatever the error, is followed by
\* a bind on the next configured endpoint (every bind of a call is made with
\* the one bindDn and password of its result); when no endpoint accepts the bind there is exactly one bind on each
\* configured endpoint, in order, and the call returns the failure; no
\* endpoint is bound to twice
C33_EveryBindFailureFailsOver ==
    ldapCall # None =>
        LET call == ldapCall[1]
            did == call.result.did
        IN  /\ \A i \in Binds(call), k \in 1..(Len(ServersOf(call)) - 1) :
                    (did[i].outcome # "ok" /\ did[i].server = ServersOf(call)[k])
                        => \E j \in Binds(call) :
                               j > i /\ did[j].server = ServersOf(call)[k + 1]
            /\ \A i \in Binds(call), j \in Binds(call) :
                    did[i].server = did[j].server => i = j
            /\ NoBindSucceeded(call) =>
                    /\ Cardinality(Binds(call)) = Len(ServersOf(call))
                    /\ \A k \in 1..Len(ServersOf(call)) :
                           \E i \in Binds(call) :
                               /\ did[i].server = ServersOf(call)[k]
                               /\ did[i].outcome = call.env[ServersOf(call)[k]].bind
                               /\ Cardinality({j \in Binds(call) : j <= i}) = k
                    /\ ~call.result.success

\* a call with a wrong password on two endpoints: both reject the bind, each
\* is bound to once, and the call fails
C33_Witness ==
    /\ ldapCall # None
    /\ ServersOf(ldapCall[1]) = <<1, 2>>
    /\ \A k \in 1..2 :
           ldapCall[1].env[k].bind = "Invalid credentials during a bind operation"
    /\ Cardinality(Binds(ldapCall[1])) = 2
    /\ ~ldapCall[1].result.success

\* the backslashes of a string, as its places
Backslashes(string) == {i \in 1..Len(string) : string[i] = "\\"}

\* C34: whatever user name comes in, the bind identity is the configured
\* short name, a backslash and the cleaned user name; the cleaned user name
\* has no backslash, cleaning it again changes nothing, and the bind identity
\* depends on nothing of the user name before its last backslash: its only
\* backslash is the one after the configured short name
C34_BindIdentityUnderConfiguredPrefix ==
    ldapCall # None =>
        LET username == ldapCall[1].username
            netbios == ldapCall[1].config.netbios
            bindDn == ldapCall[1].result.bindDn
            last == IF Backslashes(username) = {} THEN 0
                    ELSE CHOOSE i \in Backslashes(username) :
                             \A j \in Backslashes(username) : j <= i
        IN  /\ bindDn = netbios \o <<"\\">> \o cleanUsername(username)
            /\ Backslashes(cleanUsername(username)) = {}
            /\ cleanUsername(cleanUsername(username)) = cleanUsername(username)
            /\ bindDn = netbios \o <<"\\">> \o SubSeq(username, last + 1, Len(username))
            /\ Backslashes(bindDn) = {Len(netbios) + 1}

\* a call with a user name that carries a prefix of the client's and a
\* backslash inside it: the bind identity is the configured short name and
\* the last part alone
C34_Witness ==
    /\ ldapCall # None
    /\ ldapCall[1].username = <<"\\", "\\", "a">>
    /\ ldapCall[1].result.bindDn = <<"G", "S", "-", "A", "D", "\\", "a">>

\* the same at the route: every 401 of POST /v1/auth/ad has the one body
RejectionIsUniform ==
    adReply.code = 401 => adReply.body = AdBody(None, None, None, "Invalid credentials")

-----------------------------------------------------------------------------
(* The identity deriver *)

\* the first user name is the second one behind a prefix and a backslash
Prefixed(long, short) ==
    /\ Len(long) > Len(short)
    /\ SubSeq(long, Len(long) - Len(short), Len(long)) = <<"\\">> \o short

\* C13: under one master secret, logging in as P\n and as bare n derives the
\* same account identifier, the same secret and the same vault key
C13_PrefixIsIgnored ==
    derivation # None
        /\ derivation[1][1].masterSecret = derivation[1][2].masterSecret
        /\ Prefixed(derivation[1][1].username, derivation[1][2].username)
    => /\ derivation[1][1].publicKeyHash = derivation[1][2].publicKeyHash
       /\ derivation[1][1].secret = derivation[1][2].secret
       /\ derivation[1][1].nasCredKey = derivation[1][2].nasCredKey

C13_Witness ==
    /\ derivation # None
    /\ derivation[1][1].masterSecret = derivation[1][2].masterSecret
    /\ derivation[1][1].username = <<"\\", "\\", "a">>
    /\ derivation[1][2].username = <<"a">>
    /\ derivation[1][1].publicKeyHash = derivation[1][2].publicKeyHash

\* C14: two different pairs of master secret and normalized user name never
\* give the same hash input, neither for the account identifier nor for
\* the secret
C14_DistinctPairsDistinctInputs ==
    derivation # None
        /\ <<derivation[1][1].masterSecret, derivation[1][1].normalizedUsername>>
            # <<derivation[1][2].masterSecret, derivation[1][2].normalizedUsername>>
    => /\ derivation[1][1].publicKeyHash # derivation[1][2].publicKeyHash
       /\ derivation[1][1].secret # derivation[1][2].secret

\* the same for two pairs that differ in one component only
OneChangeDistinctInputs ==
    derivation # None
        /\ \/ /\ derivation[1][1].masterSecret = derivation[1][2].masterSecret
              /\ derivation[1][1].normalizedUsername # derivation[1][2].normalizedUsername
           \/ /\ derivation[1][1].masterSecret # derivation[1][2].masterSecret
              /\ derivation[1][1].normalizedUsername = derivation[1][2].normalizedUsername
    => /\ derivation[1][1].publicKeyHash # derivation[1][2].publicKeyHash
       /\ derivation[1][1].secret # derivation[1][2].secret

\* the strings hashed for the account identifier, for the login secret and
\* for the vault key of a derivation
AccountInput(derived) == derived.publicKeyHash.digest.sha256
SecretInput(derived) == derived.secret.digest.sha256
VaultKeyInput(derived) == derived.nasCredKey.sha256

\* C36: the three derivations hash disjoint inputs: whatever the master
\* secrets and user names of two logins, equal or different, the string
\* hashed for the account identifier of the one, the string hashed for the
\* login secret of the other and the string hashed for the vault key of
\* either are pairwise different
C36_DerivationsHashDisjointInputs ==
    derivation # None =>
        \A i \in 1..2, j \in 1..2 :
            /\ AccountInput(derivation[1][i]) # SecretInput(derivation[1][j])
            /\ AccountInput(derivation[1][i]) # VaultKeyInput(derivation[1][j])
            /\ SecretInput(derivation[1][i]) # VaultKeyInput(derivation[1][j])

\* two logins where the master secret of the one is that of the other
\* followed by ':a' and by what the other has as user name, so that the
\* account identifiers are hashed from one string: the three kinds of input
\* are apart all the same
C36_Witness ==
    /\ derivation # None
    /\ derivation[1][1].masterSecret # derivation[1][2].masterSecret
    /\ AccountInput(derivation[1][1]) = AccountInput(derivation[1][2])
    /\ AccountInput(derivation[1][1]) # SecretInput(derivation[1][2])
    /\ SecretInput(derivation[1][1]) # VaultKeyInput(derivation[1][2])
    /\ AccountInput(derivation[1][1]) # VaultKeyInput(derivation[1][1])

-----------------------------------------------------------------------------
(* Directory login *)

\* the last reply is one of POST /v1/auth/ad
AdReplied == adReply.endpoint = "ad"

\* the step ends a handler of POST /v1/auth/ad that went past the directory check
AdCompletes == BagCardinality(adInflight') < BagCardinality(adInflight)

\* C11: POST /v1/auth/ad returns a token and a secret only when the
\* directory authenticator reported success; when it reported failure the
\* reply is 401 with no token, and no account and no sealed credential is
\* written
C11_LoginOnlyAfterDirectorySuccess ==
    [][/\ \A h \in BagToSet(adInflight') : h.success
       /\ adReply'.endpoint = "ad" =>
             \/ /\ adReply'.code = 200
                /\ adReply'.did.success
                /\ adReply'.body.token # None
                /\ adReply'.body.secret # None
             \/ /\ adReply'.code = 401
                /\ ~adReply'.did.success
                /\ adReply'.did.userId = None
                /\ adReply'.body.token = None
                /\ adReply'.body.secret = None
       /\ account' # account => BagCardinality(adInflight') > BagCardinality(adInflight)
       /\ userKVStore' # userKVStore => AdCompletes /\ adReply'.did.success
       /\ adReply' # adReply /\ adReply'.code = 401 =>
             /\ account' = account
             /\ userKVStore' = userKVStore
             /\ adInflight' = adInflight]_vars

C11_Witness ==
    /\ AdReplied
    /\ adReply.code = 401
    /\ ~adReply.did.success
    /\ account = {}
    /\ userKVStore = {}

\* C12: under one master secret, every successful directory login with the
\* same normalized user name returns a token of the same account and the
\* same secret, whatever happened between the logins
C12_SameNameSameAccountAndSecret ==
    /\ \A x \in issued, y \in issued :
          x.name = y.name => x.accountId = y.accountId /\ x.secret = y.secret
    /\ AdReplied /\ adReply.code = 200 =>
          [name |-> lastSegment(adReply.request.username),
           accountId |-> adReply.body.token[1].accountId,
           secret |-> adReply.body.secret[1]] \in issued

C12_Witness ==
    /\ AdReplied
    /\ adReply.code = 200
    /\ adReply.request.username = <<"a", "\\", "a">>
    /\ Cardinality(issued) = 2
    /\ \E row \in account : /\ row.id = adReply.body.token[1].accountId
                             /\ row.updatedAt >= 1
                             /\ row.id # RowId("account", 1)

\* at most one credential per account and key
UniqueKV(table) ==
    \A r1 \in table, r2 \in table :
        r1.accountId = r2.accountId /\ r1.key = r2.key => r1 = r2

\* what the credential stored for the account of the last reply unseals to,
\* under the key derived for the user name of the request
UnsealedFor(table, replied) ==
    LET row == CHOOSE r \in table :
                   r.accountId = replied.did.userId[1] /\ r.key = "nas-credentials"
    IN  decryptNasPassword(row.value,
                           deriveNasCredKey(masterSecret, lastSegment(replied.request.username)))

\* C17 as stated: there is at most one sealed credential per account, and
\* after a login whose vault write succeeded the stored blob unseals under
\* the user's key to the password of that login, until the next such login
C17_LastPasswordUnseals ==
    [][/\ UniqueKV(userKVStore')
       /\ IF AdCompletes /\ adReply'.did.stored = "ok"
             THEN UnsealedFor(userKVStore', adReply')
                      = [threw |-> FALSE, password |-> adReply'.request.password]
             ELSE userKVStore' = userKVStore]_vars

\* C17: there is at most one sealed credential per account, and after a
\* login whose vault write succeeded the stored blob unseals under the
\* user's key to the password of that login with each unpaired surrogate
\* replaced by U+FFFD (the password itself when it has none), until the
\* next such login
C17_LastTextPasswordUnseals ==
    [][/\ UniqueKV(userKVStore')
       /\ IF AdCompletes /\ adReply'.did.stored = "ok"
             THEN /\ UnsealedFor(userKVStore', adReply')
                        = [threw |-> FALSE, password |-> Scrubbed(adReply'.request.password)]
                  /\ WellFormed(adReply'.request.password) =>
                        UnsealedFor(userKVStore', adReply').password
                            = adReply'.request.password
             ELSE userKVStore' = userKVStore]_vars

C17_Witness ==
    /\ AdReplied
    /\ adReply.did.stored = "ok"
    /\ adReply.request.password = <<120>>
    /\ \E row \in account : row.id = adReply.did.userId[1] /\ row.updatedAt >= 1
    /\ UnsealedFor(userKVStore, adReply).password = <<120>>

\* C18: when the bind succeeded and sealing or storing the credential
\* fails, the login still returns 200 with the token and the secret
C18_StoreFailureStillLogsIn ==
    AdReplied /\ adReply.did.stored = "throw" =>
        /\ adReply.did.success
        /\ adReply.code = 200
        /\ adReply.body.success = Some(TRUE)
        /\ adReply.body.token = Some(createToken(adReply.did.userId[1], None))
        /\ adReply.body.secret # None

C18_Witness ==
    /\ AdReplied
    /\ adReply.did.stored = "throw"
    /\ adReply.code = 200
    /\ userKVStore = {}

-----------------------------------------------------------------------------
(* Retrieval of the NAS credentials *)

\* the step is a call of GET /v1/auth/ad/nas-credentials
Retrieves == adReply' # adReply /\ adReply'.endpoint = "nas-credentials"

\* what a stored blob unseals to under the key of the user name of the last
\* retrieval
UnsealedByQuery(replied, row) ==
    decryptNasPassword(row.value,
                       deriveNasCredKey(masterSecret, cleanUsername(replied.request.username)))

(* C39: the credential retrieval endpoint reads only the blob stored under
   the authenticated caller's own account: whatever user name the caller puts
   in the query, a password in the reply is what the caller's own blob unseals
   to, the key of the query opens no blob of another account, a caller with no
   blob is answered 404, and the call changes no stored state *)
C39_RetrievalReadsOwnBlobOnly ==
    [][Retrieves =>
        /\ UNCHANGED <<account, userKVStore, terminalAuthRequest, accountAuthRequest,
                       masterSecret>>
        /\ (\A row \in userKVStore : row.accountId # adReply'.request.userId)
                => adReply'.code = 404
        /\ adReply'.code = 200 =>
                /\ \E row \in userKVStore :
                        /\ row.accountId = adReply'.request.userId
                        /\ UnsealedByQuery(adReply', row)
                                = [threw |-> FALSE, password |-> adReply'.body.password[1]]
                /\ \A row \in userKVStore :
                        row.accountId # adReply'.request.userId
                            => UnsealedByQuery(adReply', row).threw
        /\ adReply'.code # 200 => adReply'.body.password = None]_vars

\* an account that has a blob of its own asked for the user name of another
\* account, whose blob holds another password and would unseal under the key
\* of the query, and was answered without a password
C39_Witness ==
    /\ adReply.endpoint = "nas-credentials"
    /\ adReply.code = 500
    /\ adReply.body.password = None
    /\ \E own \in userKVStore, other \in userKVStore :
            /\ own.accountId = adReply.request.userId
            /\ other.accountId # adReply.request.userId
            /\ UnsealedByQuery(adReply, own).threw
            /\ ~UnsealedByQuery(adReply, other).threw
            /\ \E username \in AdUsernames :
                    LET opened == decryptNasPassword(
                                      own.value, deriveNasCredKey(masterSecret,
                                                                  cleanUsername(username)))
                    IN  /\ ~opened.threw
                        /\ opened.password # UnsealedByQuery(adReply, other).password

====
